---------------------------- MODULE Spec2Model ----------------------------
(***************************************************************************)
(* Model of the hardware-debug assistant: its tool core (src/src/tools.ts), *)
(* that is the HDL issue detector, the signal extractor, the summary       *)
(* generator and the advisory generators, and its conversation agent       *)
(* (src/src/agent.ts), whose message handlers interleave at their awaits.  *)
(*                                                                         *)
(* Source text is a sequence of one-character strings, so that substring   *)
(* tests, line splitting and the regular expressions of the code are       *)
(* computed character by character, as the code computes them.             *)
(*                                                                         *)
(* A value the code computes once and then reads several times (a const)   *)
(* is bound once as well: either as the argument of a function, or as      *)
(*     CHOOSE r \in {body : x \in {e}} : TRUE                              *)
(* which is "LET x == e IN body" with e evaluated a single time.           *)
(***************************************************************************)
EXTENDS Integers, Sequences, FiniteSets, TLC

VARIABLES
    pc,     \* "called": a tool call is pending; "returned": it has returned
    tool,   \* the operation being invoked
    args,   \* its arguments
    ret,    \* its completion (NoRet while the call is pending)
    state,      \* the agent's this.state
    contexts,   \* the DesignContext objects alive, by identity
    messages,   \* the rows of the SQL table messages, in insertion order
    handlers,   \* the webSocketMessage invocations in progress, by arrival
    received,   \* how many WebSocket messages have arrived
    log         \* history: what was received and what was acknowledged

toolVars == <<pc, tool, args, ret>>
agentVars == <<state, contexts, messages, handlers, received, log>>
vars == <<pc, tool, args, ret, state, contexts, messages, handlers, received, log>>

\* How a call or a step of it completes: normally with a value, or abruptly
\* with the exception thrown.
Normal(v) == [type |-> "normal", value |-> v]
Throw(e) == [type |-> "throw", value |-> e]
NoRet == [type |-> "pending"]

\* String.prototype.match's results: null when nothing matches, otherwise the
\* array of the matches (with the g flag) or of the match and its groups.
Null == [isNull |-> TRUE]
Arr(items) == [isNull |-> FALSE, items |-> items]
\* Reading a property of m: a TypeError when m is null.
ItemsOf(m) == IF m.isNull THEN Throw("TypeError") ELSE Normal(m.items)

(***************************************************************************)
(* The agent after initialize(): both tables empty, and the state holding  *)
(* a fresh DesignContext.  this.state.designContext is a reference: the    *)
(* state records the identity of the object, contexts its fields.          *)
(* lastInteraction (a wall-clock reading nothing else reads) is left out.  *)
(***************************************************************************)
NewDesignContext ==
    [currentModule |-> <<"n","o","n","e">>,
     recentErrors |-> <<>>,
     codeSnippets |-> <<>>,
     syntaxPreferences |->
         [language |-> <<"v","e","r","i","l","o","g">>,
          style |-> <<"i","n","d","u","s","t","r","y">>]]

NoLog == [chats |-> 0, clears |-> 0, lastChat |-> 0, cleared |-> 0]

initialize ==
    /\ state = [conversationCount |-> 0, designContext |-> 0]
    /\ contexts = (0 :> NewDesignContext)
    /\ messages = <<>>
    /\ handlers = <<>>
    /\ received = 0
    /\ log = NoLog

(***************************************************************************)
(* Characters and character classes of the JavaScript regular expressions. *)
(***************************************************************************)
\* a string, as the sequence of its characters
Text == Seq(STRING)

\* the values of String.prototype.match
MatchResult == [isNull : {TRUE}] \cup [isNull : {FALSE}, items : Seq(Text)]

Lower == {"a","b","c","d","e","f","g","h","i","j","k","l","m",
          "n","o","p","q","r","s","t","u","v","w","x","y","z"}
Upper == {"A","B","C","D","E","F","G","H","I","J","K","L","M",
          "N","O","P","Q","R","S","T","U","V","W","X","Y","Z"}
Digit == {"0","1","2","3","4","5","6","7","8","9"}
\* [a-zA-Z_]
IdentStart == Lower \cup Upper \cup {"_"}
\* \w
WordChar == IdentStart \cup Digit
\* \s (the ASCII members)
SpaceChar == {" ", "\t", "\n", "\r"}
\* what "." does not match
LineTerminator == {"\n", "\r"}

Range(s) == {s[i] : i \in 1..Len(s)}

Min(S) == CHOOSE m \in S : \A n \in S : m <= n

\* the concatenation of a sequence of character sequences
Concat(ss) ==
    LET F[k \in 0..Len(ss)] == IF k = 0 THEN <<>> ELSE F[k - 1] \o ss[k]
    IN  F[Len(ss)]

\* a character sequence as one string (for template literals)
Str(cs) ==
    LET F[lo \in 1..(Len(cs) + 1), hi \in 0..Len(cs)] ==
            IF lo > hi THEN ""
            ELSE IF lo = hi THEN cs[lo]
            ELSE F[lo, (lo + hi) \div 2] \o F[(lo + hi) \div 2 + 1, hi]
    IN  F[1, Len(cs)]

\* Array.prototype.join over strings
Join(parts, sep) ==
    LET F[k \in 0..Len(parts)] ==
            IF k = 0 THEN ""
            ELSE IF k = 1 THEN parts[1]
            ELSE F[k - 1] \o sep \o parts[k]
    IN  F[Len(parts)]

\* pat occurs in s at position i
MatchAt(s, i, pat) ==
    /\ i >= 1
    /\ i + Len(pat) - 1 <= Len(s)
    /\ \A k \in 1..Len(pat) : s[i + k - 1] = pat[k]

\* String.prototype.includes
Includes(s, pat) == \E i \in 1..(Len(s) - Len(pat) + 1) : MatchAt(s, i, pat)

\* Array.prototype.includes
ArrayIncludes(arr, x) == \E i \in 1..Len(arr) : arr[i] = x

\* the first position >= i of s that holds no character of class, Len(s)+1 if none
SkipClass(s, i, class) ==
    Min({j \in i..(Len(s) + 1) : j = Len(s) + 1 \/ s[j] \notin class})

\* the positions of the line feeds of s
NewlinesOf(s) == {i \in 1..Len(s) : s[i] = "\n"}

\* code.split('\n'): the pieces from position p on
SplitFrom[s \in Text, p \in Nat] ==
    LET rest == {i \in p..Len(s) : s[i] = "\n"}
    IN  IF rest = {} THEN <<SubSeq(s, p, Len(s))>>
        ELSE <<SubSeq(s, p, Min(rest) - 1)>> \o SplitFrom[s, Min(rest) + 1]

\* code.split('\n')
SplitLines(s) == SplitFrom[s, 1]

\* Array.prototype.findIndex (0-based, -1 when no element satisfies it),
\* for the test l => l.includes(pat)
FindIndexIncludes[lines \in Seq(Text), pat \in Text] ==
    LET hits == {i \in 1..Len(lines) : Includes(lines[i], pat)}
    IN  IF hits = {} THEN -1 ELSE Min(hits) - 1

(***************************************************************************)
(* Keywords and literals of the source.                                    *)
(***************************************************************************)
kw_always    == <<"a","l","w","a","y","s">>
kw_if        == <<"i","f">>
kw_else      == <<"e","l","s","e">>
kw_case      == <<"c","a","s","e">>
kw_begin     == <<"b","e","g","i","n">>
kw_end       == <<"e","n","d">>
kw_module    == <<"m","o","d","u","l","e">>
kw_endmodule == <<"e","n","d","m","o","d","u","l","e">>
kw_default   == <<"d","e","f","a","u","l","t">>
kw_posedge   == <<"p","o","s","e","d","g","e">>
kw_negedge   == <<"n","e","g","e","d","g","e">>
kw_or        == <<"o","r">>
kw_process   == <<"p","r","o","c","e","s","s">>
kw_variable  == <<"v","a","r","i","a","b","l","e">>
kw_signal    == <<"s","i","g","n","a","l">>

(***************************************************************************)
(* extractSignals                                                          *)
(***************************************************************************)
\* Mutant: the keyword filter also drops the sensitivity-list separator "or".
SignalBlocklist_withOr ==
    {kw_always, kw_if, kw_else, kw_case, kw_begin, kw_end, kw_module, kw_endmodule,
     kw_or}

\* the keyword filter of extractSignals
SignalBlocklist ==
    {kw_always, kw_if, kw_else, kw_case, kw_begin, kw_end, kw_module, kw_endmodule}

\* /\b([a-zA-Z_]\w*)\b/ matches at position i of line: a word boundary, then
\* an identifier start (the greedy \w* then runs to the end of the word)
IdentifierAt(line, i) ==
    /\ line[i] \in IdentStart
    /\ (i = 1 \/ line[i - 1] \notin WordChar)

\* line.match(/\b([a-zA-Z_]\w*)\b/g) scanned from position i: the matches in
\* order (the empty sequence stands for the null of "no match")
IdentifierMatches[line \in Text, i \in Nat] ==
    LET starts == {j \in i..Len(line) : IdentifierAt(line, j)}
    IN  IF starts = {} THEN <<>>
        ELSE <<SubSeq(line, Min(starts), SkipClass(line, Min(starts), WordChar) - 1)>>
             \o IdentifierMatches[line, SkipClass(line, Min(starts), WordChar)]

\* Mutant: the keyword filter compares against the list itself instead of its
\* members, so every match is added.
AddSignal_noFilter(signals, m) ==
    IF ArrayIncludes(signals, m) THEN signals ELSE Append(signals, m)

\* if (!keywords.includes(m)) signals.add(m): a Set keeps insertion order and
\* ignores a value it already holds
AddSignal(signals, m) ==
    IF m \in SignalBlocklist \/ ArrayIncludes(signals, m)
    THEN signals
    ELSE Append(signals, m)

\* matches.forEach over the matches ms of one line
SetAddAll[signals \in Seq(Text), ms \in Seq(Text)] ==
    IF ms = <<>> THEN signals
    ELSE SetAddAll[AddSignal(signals, Head(ms)), Tail(ms)]

\* the loop over the lines: signals after the first k lines
ExtractFromLines[lines \in Seq(Text), k \in Nat] ==
    IF k = 0 THEN <<>>
    ELSE SetAddAll[ExtractFromLines[lines, k - 1], IdentifierMatches[lines[k], 1]]

\* extractSignals(code): Array.from(signals)
extractSignals(code) ==
    CHOOSE signals \in
        {ExtractFromLines[lines, Len(lines)] : lines \in {SplitLines(code)}} : TRUE

(***************************************************************************)
(* generateSummary                                                         *)
(***************************************************************************)
\* issues.filter(i => i.severity === sev).length
CountSeverity(issues, sev) ==
    Cardinality({i \in 1..Len(issues) : issues[i].severity = sev})

\* Mutant: the "no issues" message whenever there is no error.
generateSummary_errorsOnly(issues) ==
    IF CountSeverity(issues, "error") = 0 THEN "No issues found. Code looks good!"
    ELSE "Found " \o ToString(Len(issues)) \o " issue(s): "
         \o ToString(CountSeverity(issues, "error")) \o " error(s)"

\* Mutant: the parts pushed in the order warning, error, info.
generateSummary_warningsFirst(issues) ==
    IF Len(issues) = 0 THEN "No issues found. Code looks good!"
    ELSE LET errors   == CountSeverity(issues, "error")
             warnings == CountSeverity(issues, "warning")
             info     == CountSeverity(issues, "info")
             parts    ==
                 (IF warnings > 0 THEN <<ToString(warnings) \o " warning(s)">> ELSE <<>>)
                 \o (IF errors > 0 THEN <<ToString(errors) \o " error(s)">> ELSE <<>>)
                 \o (IF info > 0 THEN <<ToString(info) \o " info">> ELSE <<>>)
         IN  "Found " \o ToString(Len(issues)) \o " issue(s): " \o Join(parts, ", ")

generateSummary(issues) ==
    IF Len(issues) = 0 THEN "No issues found. Code looks good!"
    ELSE LET errors   == CountSeverity(issues, "error")
             warnings == CountSeverity(issues, "warning")
             info     == CountSeverity(issues, "info")
             summary  == "Found " \o ToString(Len(issues)) \o " issue(s): "
             parts    ==
                 (IF errors > 0 THEN <<ToString(errors) \o " error(s)">> ELSE <<>>)
                 \o (IF warnings > 0 THEN <<ToString(warnings) \o " warning(s)">> ELSE <<>>)
                 \o (IF info > 0 THEN <<ToString(info) \o " info">> ELSE <<>>)
         IN  summary \o Join(parts, ", ")

(***************************************************************************)
(* analyzeVerilogTool.execute: the regular expressions                     *)
(***************************************************************************)
\* the prefix always\s*@\s*\( matched at position i: the position after the
\* "(" it ends with, 0 when it does not match at i
AlwaysHeaderAt(s, i) ==
    IF ~MatchAt(s, i, kw_always) THEN 0
    ELSE LET a == SkipClass(s, i + Len(kw_always), SpaceChar)
         IN  IF a > Len(s) \/ s[a] # "@" THEN 0
             ELSE LET b == SkipClass(s, a + 1, SpaceChar)
                  IN  IF b > Len(s) \/ s[b] # "(" THEN 0 ELSE b + 1

\* code.match(/always\s*@\s*\(\s*posedge|negedge/), as a truth value: the
\* alternation binds loosest, so the second alternative is negedge alone
hasAlwaysFF(code) ==
    \/ \E i \in 1..Len(code) :
          \E k \in {AlwaysHeaderAt(code, i)} :
              k > 0 /\ MatchAt(code, SkipClass(code, k, SpaceChar), kw_posedge)
    \/ Includes(code, kw_negedge)

\* for a header whose "(" ends before position k: the position of the ")" that
\* the lazy (.*?) stops at, 0 when a line terminator or the end comes first
CloseParenFrom(s, k) ==
    LET stops == {p \in k..Len(s) : s[p] = ")" \/ s[p] \in LineTerminator}
    IN  IF stops = {} THEN 0
        ELSE IF s[Min(stops)] = ")" THEN Min(stops) ELSE 0

\* code.match(/always\s*@\s*\((.*?)\)/): the first match with its group 1,
\* or Null
alwaysMatch(code) ==
    LET starts == {i \in 1..Len(code) :
                      \E k \in {AlwaysHeaderAt(code, i)} :
                          k > 0 /\ CloseParenFrom(code, k) > 0}
    IN  IF starts = {} THEN Null
        ELSE LET k == AlwaysHeaderAt(code, Min(starts))
                 e == CloseParenFrom(code, k)
             IN  Arr(<<SubSeq(code, Min(starts), e), SubSeq(code, k, e - 1)>>)

\* /\s+or\s+|\s+,\s+/ matched at position q: the position after the match, 0
\* when it does not match at q
SeparatorAt(s, q) ==
    IF q > Len(s) \/ s[q] \notin SpaceChar THEN 0
    ELSE LET a == SkipClass(s, q, SpaceChar)
             b == IF MatchAt(s, a, kw_or) THEN a + 2
                  ELSE IF MatchAt(s, a, <<",">>) THEN a + 1
                  ELSE 0
         IN  IF b = 0 \/ b > Len(s) \/ s[b] \notin SpaceChar THEN 0
             ELSE SkipClass(s, b, SpaceChar)

\* the pieces of s from position p on, the separator searched from q on
SplitSeparators[s \in Text, p \in Nat, q \in Nat] ==
    LET starts == {j \in q..Len(s) : SeparatorAt(s, j) > 0}
    IN  IF starts = {} THEN <<SubSeq(s, p, Len(s))>>
        ELSE <<SubSeq(s, p, Min(starts) - 1)>>
             \o SplitSeparators[s, SeparatorAt(s, Min(starts)), SeparatorAt(s, Min(starts))]

\* sensitivityList.split(/\s+or\s+|\s+,\s+/)
listedSignals(sensitivityList) == SplitSeparators[sensitivityList, 1, 1]

\* usedSignals.filter(s => !listedSignals.includes(s))
missingSignals[used \in Seq(Text), listed \in Seq(Text)] ==
    IF used = <<>> THEN <<>>
    ELSE IF ArrayIncludes(listed, Head(used)) THEN missingSignals[Tail(used), listed]
    ELSE <<Head(used)>> \o missingSignals[Tail(used), listed]

\* /(\w+)\s*[<]?=/ matched at position i: the position of its "=", 0 when it
\* does not match at i
AssignmentAt(s, i) ==
    IF i > Len(s) \/ s[i] \notin WordChar THEN 0
    ELSE LET a == SkipClass(s, SkipClass(s, i, WordChar), SpaceChar)
             b == IF a <= Len(s) /\ s[a] = "<" THEN a + 1 ELSE a
         IN  IF b <= Len(s) /\ s[b] = "=" THEN b ELSE 0

\* the matches of /(\w+)\s*[<]?=/g in s from position i on, in order
AssignmentMatches[s \in Text, i \in Nat] ==
    LET starts == {j \in i..Len(s) : AssignmentAt(s, j) > 0}
    IN  IF starts = {} THEN <<>>
        ELSE <<SubSeq(s, Min(starts), AssignmentAt(s, Min(starts)))>>
             \o AssignmentMatches[s, AssignmentAt(s, Min(starts)) + 1]

\* code.match(/(\w+)\s*[<]?=/g)
assignments(code) ==
    CHOOSE m \in {IF ms = <<>> THEN Null ELSE Arr(ms) : ms \in {AssignmentMatches[code, 1]}}
        : TRUE

\* String.prototype.trim
Trim(s) ==
    LET keep == {i \in 1..Len(s) : s[i] \notin SpaceChar}
    IN  IF keep = {} THEN <<>>
        ELSE SubSeq(s, Min(keep), CHOOSE m \in keep : \A n \in keep : n <= m)

\* a.split(/\s*[<]?=/)[0].trim(): the text before the first place where the
\* separator matches
assignedSignal(a) ==
    LET SepAt(q) ==
            LET x == SkipClass(a, q, SpaceChar)
                y == IF x <= Len(a) /\ a[x] = "<" THEN x + 1 ELSE x
            IN  y <= Len(a) /\ a[y] = "="
        seps == {q \in 1..Len(a) : SepAt(q)}
    IN  IF seps = {} THEN Trim(a) ELSE Trim(SubSeq(a, 1, Min(seps) - 1))

\* the entries of the Map signalCounts
SignalCount == [signal : Text, count : Nat]

\* Mutant: a signal counted again moves to the end of the Map.
CountSignal_moveLast(counts, sig) ==
    LET at == {i \in 1..Len(counts) : counts[i].signal = sig}
    IN  IF at = {}
        THEN Append(counts, [signal |-> sig, count |-> 1])
        ELSE Append(SelectSeq(counts, LAMBDA c : c.signal # sig),
                    [signal |-> sig, count |-> counts[Min(at)].count + 1])

\* the entry a signalCounts.set(signal, ...) writes: the count of a signal
\* already in the Map goes up by one, a new signal enters last with count 1
CountSignal(counts, sig) ==
    LET at == {i \in 1..Len(counts) : counts[i].signal = sig}
    IN  IF at = {}
        THEN Append(counts, [signal |-> sig, count |-> 1])
        ELSE [counts EXCEPT ![Min(at)].count = @ + 1]

\* signalCounts after the forEach over the assignments: a Map in insertion
\* order, as a sequence of [signal, count]
CountInto[counts \in Seq(SignalCount), matched \in Seq(Text)] ==
    IF matched = <<>> THEN counts
    ELSE CountInto[CountSignal(counts, assignedSignal(Head(matched))), Tail(matched)]

signalCounts(matched) == CountInto[<<>>, matched]

\* /@\s*\(posedge\s+(\w+)\)/ matched at position i: the position of its ")",
\* 0 when it does not match at i
ClockHeaderAt(s, i) ==
    IF i > Len(s) \/ s[i] # "@" THEN 0
    ELSE LET a == SkipClass(s, i + 1, SpaceChar)
             b == a + 1 + Len(kw_posedge)
         IN  IF ~(a <= Len(s) /\ s[a] = "(" /\ MatchAt(s, a + 1, kw_posedge)) THEN 0
             ELSE IF b > Len(s) \/ s[b] \notin SpaceChar THEN 0
             ELSE LET c == SkipClass(s, b, SpaceChar)
                      d == SkipClass(s, c, WordChar)
                  IN  IF d > c /\ d <= Len(s) /\ s[d] = ")" THEN d ELSE 0

\* the matches of /@\s*\(posedge\s+(\w+)\)/g in s from position i on, in order
ClockHeaderMatches[s \in Text, i \in Nat] ==
    LET starts == {j \in i..Len(s) : ClockHeaderAt(s, j) > 0}
    IN  IF starts = {} THEN <<>>
        ELSE <<SubSeq(s, Min(starts), ClockHeaderAt(s, Min(starts)))>>
             \o ClockHeaderMatches[s, ClockHeaderAt(s, Min(starts)) + 1]

\* code.match(/@\s*\(posedge\s+(\w+)\)/g)
hasClock(code) ==
    CHOOSE m \in {IF ms = <<>> THEN Null ELSE Arr(ms) : ms \in {ClockHeaderMatches[code, 1]}}
        : TRUE

\* h.match(/posedge\s+(\w+)/)?.[1]: group 1 of the first match; undefined
\* (here the empty name) when h has no match
clockOf(h) ==
    LET NameStart(q) == SkipClass(h, q + Len(kw_posedge), SpaceChar)
        hits == {q \in 1..Len(h) :
                    /\ MatchAt(h, q, kw_posedge)
                    /\ NameStart(q) > q + Len(kw_posedge)
                    /\ NameStart(q) <= Len(h)
                    /\ h[NameStart(q)] \in WordChar}
    IN  IF hits = {} THEN <<>>
        ELSE LET c == NameStart(Min(hits))
             IN  SubSeq(h, c, SkipClass(h, c, WordChar) - 1)

\* code.match(/\s+kw\s+/), as a truth value
SpacedKeyword(code, kw) ==
    \E i \in 1..Len(code) :
        /\ code[i] \in SpaceChar
        /\ \E a \in {SkipClass(code, i, SpaceChar)} :
               /\ MatchAt(code, a, kw)
               /\ a + Len(kw) <= Len(code)
               /\ code[a + Len(kw)] \in SpaceChar

(***************************************************************************)
(* analyzeVerilogTool.execute: the rules, in the order the code runs them  *)
(***************************************************************************)
\* the line length above which a line counts as long
LongLineLimit == 120

\* Mutant: the 0-based index of findIndex reported as the line.
latchRule_zeroBased(code) ==
    IF Includes(code, kw_if) /\ ~Includes(code, kw_else)
    THEN <<[type       |-> "latch_inference",
            severity   |-> "warning",
            line       |-> FindIndexIncludes[SplitLines(code), kw_if],
            message    |-> "Incomplete if statement may cause latch inference",
            suggestion |-> "Add an else clause or default assignment before the if statement"]>>
    ELSE <<>>

\* latch inference (Verilog)
latchRule(code) ==
    IF Includes(code, kw_if) /\ ~Includes(code, kw_else)
    THEN <<[type       |-> "latch_inference",
            severity   |-> "warning",
            line       |-> FindIndexIncludes[SplitLines(code), kw_if] + 1,
            message    |-> "Incomplete if statement may cause latch inference",
            suggestion |-> "Add an else clause or default assignment before the if statement"]>>
    ELSE <<>>

\* blocking assignments in sequential logic
blockingRule(code) ==
    LET hasBlockingInFF ==
            /\ hasAlwaysFF(code)
            /\ Includes(code, <<"=">>)
            /\ ~Includes(code, <<"<", "=">>)
    IN  IF hasBlockingInFF
        THEN <<[type       |-> "blocking_in_sequential",
                severity   |-> "error",
                message    |-> "Using blocking assignments (=) in sequential always block",
                suggestion |-> "Use non-blocking assignments (<=) for sequential logic"]>>
        ELSE <<>>

\* the strings of a sequence of character sequences
Strs(css) == [i \in 1..Len(css) |-> Str(css[i])]

\* the issue pushed when missingSignals is not empty
sensitivityIssues[missing \in Seq(Text)] ==
    IF Len(missing) > 0
    THEN <<[type       |-> "incomplete_sensitivity",
            severity   |-> "warning",
            message    |-> "Potentially incomplete sensitivity list. Missing signals: "
                           \o Join(Strs(missing), ", "),
            suggestion |-> "Use always @(*) for automatic sensitivity list generation"]>>
    ELSE <<>>

\* sensitivity list issues
sensitivityRule(code) ==
    CHOOSE completion \in
        {IF ~m.isNull
         THEN LET got == ItemsOf(m)
              IN  IF got.type = "throw" THEN got
                  ELSE LET sensitivityList == got.value[2]
                       IN  IF /\ ~Includes(sensitivityList, kw_posedge)
                              /\ ~Includes(sensitivityList, kw_negedge)
                           THEN Normal(sensitivityIssues[
                                    missingSignals[extractSignals(code),
                                                   listedSignals(sensitivityList)]])
                           ELSE Normal(<<>>)
         ELSE Normal(<<>>)
         : m \in {alwaysMatch(code)}} : TRUE

\* case statement defaults
caseDefaultRule(code) ==
    IF Includes(code, kw_case) /\ ~Includes(code, kw_default)
    THEN <<[type       |-> "no_case_default",
            severity   |-> "warning",
            message    |-> "Case statement without default clause",
            suggestion |-> "Add a default clause to handle unexpected values"]>>
    ELSE <<>>

\* signalCounts.forEach: one issue per signal counted more than once, for
\* the first k entries of the Map
multipleIssues[counts \in Seq(SignalCount), k \in Nat] ==
    IF k = 0 THEN <<>>
    ELSE multipleIssues[counts, k - 1]
         \o (IF counts[k].count > 1
             THEN <<[type       |-> "multiple_assignments",
                     severity   |-> "error",
                     message    |-> "Signal '" \o Str(counts[k].signal)
                                    \o "' assigned multiple times",
                     suggestion |-> "Ensure each signal is assigned in only one always block or assign statement"]>>
             ELSE <<>>)

\* the body of "if (assignments)", for the value m of assignments
countedIssues[m \in MatchResult] ==
    LET got == ItemsOf(m)
    IN  IF got.type = "throw" THEN got
        ELSE CHOOSE completion \in
                 {Normal(multipleIssues[counts, Len(counts)]) :
                     counts \in {signalCounts(got.value)}} : TRUE

\* Mutant: assignments.forEach without the "if (assignments)" guard.
multipleAssignmentsRule_noGuard(code) == countedIssues[assignments(code)]

\* multiple assignments to the same signal
multipleAssignmentsRule(code) ==
    CHOOSE completion \in
        {IF ~m.isNull THEN countedIssues[m] ELSE Normal(<<>>) :
            m \in {assignments(code)}} : TRUE

\* clock domain crossing
cdcRule(code) ==
    CHOOSE completion \in
        {IF ~m.isNull /\ Len(m.items) > 1
         THEN LET got == ItemsOf(m)
              IN  IF got.type = "throw" THEN got
                  ELSE LET clocks == {clockOf(got.value[i]) : i \in 1..Len(got.value)}
                       IN  IF Cardinality(clocks) > 1
                           THEN Normal(<<[
                               type       |-> "clock_domain_crossing",
                               severity   |-> "warning",
                               message    |-> "Multiple clock domains detected - potential CDC issues",
                               suggestion |-> "Use proper synchronizers (two-flop) for single-bit CDC, async FIFOs for data"]>>)
                           ELSE Normal(<<>>)
         ELSE Normal(<<>>)
         : m \in {hasClock(code)}} : TRUE

\* Mutant: the VHDL latch issue given the line of the process, as the Verilog
\* one is given the line of the if.
vhdlLatchRule_withLine(code) ==
    IF Includes(code, kw_process) /\ ~Includes(code, kw_else)
    THEN <<[type       |-> "latch_inference",
            severity   |-> "warning",
            line       |-> FindIndexIncludes[SplitLines(code), kw_process] + 1,
            message    |-> "Incomplete conditional assignment in process may cause latch",
            suggestion |-> "Ensure all signals have default assignments or complete if-else chains"]>>
    ELSE <<>>

\* latch inference (VHDL)
vhdlLatchRule(code) ==
    IF Includes(code, kw_process) /\ ~Includes(code, kw_else)
    THEN <<[type       |-> "latch_inference",
            severity   |-> "warning",
            message    |-> "Incomplete conditional assignment in process may cause latch",
            suggestion |-> "Ensure all signals have default assignments or complete if-else chains"]>>
    ELSE <<>>

\* variable vs signal usage
vhdlMixedRule(code) ==
    LET hasVariables == SpacedKeyword(code, kw_variable)
        hasSignals   == SpacedKeyword(code, kw_signal)
    IN  IF hasVariables /\ hasSignals
        THEN <<[type       |-> "mixed_variable_signal",
                severity   |-> "info",
                message    |-> "Process uses both variables and signals",
                suggestion |-> "Variables update immediately, signals update at end of process - ensure correct usage"]>>
        ELSE <<>>

\* lines.filter(l => l.length > 120), as the set of the lines' indices
longLinesOf[lines \in Seq(Text)] ==
    {i \in 1..Len(lines) : Len(lines[i]) > LongLineLimit}

\* Mutant: a line of exactly 120 characters counted as long.
styleRule_from120(code) ==
    CHOOSE pushed \in
        {IF Cardinality(longLines) > 0
         THEN <<[type       |-> "style",
                 severity   |-> "info",
                 message    |-> ToString(Cardinality(longLines)) \o " lines exceed 120 characters",
                 suggestion |-> "Consider breaking long lines for better readability"]>>
         ELSE <<>>
         : longLines \in {{i \in 1..Len(lines) : Len(lines[i]) >= LongLineLimit} :
                             lines \in {SplitLines(code)}}} : TRUE

\* the generic check of both languages: long lines
styleRule(code) ==
    CHOOSE pushed \in
        {IF Cardinality(longLines) > 0
         THEN <<[type       |-> "style",
                 severity   |-> "info",
                 message    |-> ToString(Cardinality(longLines)) \o " lines exceed 120 characters",
                 suggestion |-> "Consider breaking long lines for better readability"]>>
         ELSE <<>>
         : longLines \in {longLinesOf[SplitLines(code)]}} : TRUE

\* Mutant: the issues of the Verilog branch with the errors first.
verilogIssues_errorsFirst(code) ==
    CHOOSE completion \in
        {IF r3.type = "throw" THEN r3
         ELSE IF r5.type = "throw" THEN r5
         ELSE IF r6.type = "throw" THEN r6
         ELSE Normal(blockingRule(code) \o r5.value \o latchRule(code) \o r3.value
                     \o caseDefaultRule(code) \o r6.value)
         : r3 \in {sensitivityRule(code)},
           r5 \in {multipleAssignmentsRule(code)},
           r6 \in {cdcRule(code)}} : TRUE

\* the issues of the Verilog branch: the first abrupt completion of a step
\* ends the call, otherwise the steps' issues in order
verilogIssues(code) ==
    CHOOSE completion \in
        {IF r3.type = "throw" THEN r3
         ELSE IF r5.type = "throw" THEN r5
         ELSE IF r6.type = "throw" THEN r6
         ELSE Normal(latchRule(code) \o blockingRule(code) \o r3.value
                     \o caseDefaultRule(code) \o r5.value \o r6.value)
         : r3 \in {sensitivityRule(code)},
           r5 \in {multipleAssignmentsRule(code)},
           r6 \in {cdcRule(code)}} : TRUE

\* the issues of the language branch
languageIssues(code, language) ==
    IF language = "verilog" THEN verilogIssues(code)
    ELSE IF language = "vhdl"
    THEN Normal(vhdlLatchRule(code) \o vhdlMixedRule(code))
    ELSE Normal(<<>>)

\* Mutant: totalIssues and summary taken before the generic check pushes.
analyzeVerilogTool_execute_early(code, language) ==
    CHOOSE completion \in
        {IF r.type = "throw" THEN r
         ELSE Normal([totalIssues |-> Len(r.value),
                      issues      |-> r.value \o styleRule(code),
                      summary     |-> generateSummary(r.value)])
         : r \in {languageIssues(code, language)}} : TRUE

\* the objects pushed to issues: line is optional
Issue ==
    [type : STRING, severity : STRING, message : STRING, suggestion : STRING]
    \cup [type : STRING, severity : STRING, line : Int, message : STRING,
          suggestion : STRING]

\* the object execute returns for the issues collected
analysisResult[issues \in Seq(Issue)] ==
    [totalIssues |-> Len(issues),
     issues      |-> issues,
     summary     |-> generateSummary(issues)]

\* analyzeVerilogTool.execute({ code, language })
analyzeVerilogTool_execute(code, language) ==
    CHOOSE completion \in
        {IF r.type = "throw" THEN r
         ELSE Normal(analysisResult[r.value \o styleRule(code)])
         : r \in {languageIssues(code, language)}} : TRUE

(***************************************************************************)
(* timingAnalysisTool.execute                                              *)
(***************************************************************************)
\* the steps pushed for a setup violation
setupSteps(violationType) ==
    IF violationType = "setup" \/ violationType = "both"
    THEN <<[step        |-> "Identify Critical Path",
            description |-> "Run timing analysis to find the longest combinational path",
            commands    |-> <<"report_timing -from [all_registers] -to [all_registers] -max_paths 10",
                              "report_timing -delay_type max -path_type full_clock">>],
           [step        |-> "Analyze Path Components",
            description |-> "Break down the delay into: logic delay, net delay, and cell delay",
            commands    |-> <<"report_timing -path full_clock -delay max -nets">>],
           [step        |-> "Optimization Strategies",
            description |-> "Consider these approaches to reduce critical path delay",
            commands    |-> <<"// Add pipeline stages to break up long paths",
                              "// Use faster cells in the critical path",
                              "// Reduce fanout of high-fanout nets",
                              "// Consider multi-cycle path constraints if applicable">>]>>
    ELSE <<>>

\* Mutant: the hold steps only for "hold", not for "both".
holdSteps_holdOnly(violationType) ==
    IF violationType = "hold"
    THEN <<[step        |-> "Check Hold Violations",
            description |-> "Hold violations often indicate clock skew or fast data paths",
            commands    |-> <<"report_timing -delay_type min", "report_clock_skew">>],
           [step        |-> "Hold Fixing",
            description |-> "Tools typically fix hold violations automatically, but you can:",
            commands    |-> <<"// Add delay buffers in the data path",
                              "// Balance clock tree to reduce skew",
                              "// Check for inappropriate multi-cycle paths">>]>>
    ELSE <<>>

\* the steps pushed for a hold violation
holdSteps(violationType) ==
    IF violationType = "hold" \/ violationType = "both"
    THEN <<[step        |-> "Check Hold Violations",
            description |-> "Hold violations often indicate clock skew or fast data paths",
            commands    |-> <<"report_timing -delay_type min", "report_clock_skew">>],
           [step        |-> "Hold Fixing",
            description |-> "Tools typically fix hold violations automatically, but you can:",
            commands    |-> <<"// Add delay buffers in the data path",
                              "// Balance clock tree to reduce skew",
                              "// Check for inappropriate multi-cycle paths">>]>>
    ELSE <<>>

Abs(n) == IF n < 0 THEN -n ELSE n

\* Mutant: the period cut after the third decimal instead of rounded.
periodToFixed3_truncated(clockFrequency) ==
    LET f      == Abs(clockFrequency)
        n      == (1000 * 1000) \div f
        whole  == n \div 1000
        frac   == n % 1000
        digits == IF frac < 10 THEN "00" \o ToString(frac)
                  ELSE IF frac < 100 THEN "0" \o ToString(frac)
                  ELSE ToString(frac)
    IN  (IF clockFrequency < 0 THEN "-" ELSE "") \o ToString(whole) \o "." \o digits

\* (1000 / clockFrequency).toFixed(3) for an integer clockFrequency other than
\* 0: the sign, then the magnitude rounded to the nearest thousandth (the
\* larger one when two are equally near), with three decimals
periodToFixed3(clockFrequency) ==
    LET f      == Abs(clockFrequency)
        n      == (2 * 1000 * 1000 + f) \div (2 * f)
        whole  == n \div 1000
        frac   == n % 1000
        digits == IF frac < 10 THEN "00" \o ToString(frac)
                  ELSE IF frac < 100 THEN "0" \o ToString(frac)
                  ELSE ToString(frac)
    IN  (IF clockFrequency < 0 THEN "-" ELSE "") \o ToString(whole) \o "." \o digits

\* the step pushed when clockFrequency is truthy (given, and not 0)
clockSteps(a) ==
    IF "clockFrequency" \in DOMAIN a /\ a.clockFrequency # 0
    THEN <<[step        |-> "Clock Period Analysis",
            description |-> "Target clock period: " \o periodToFixed3(a.clockFrequency)
                            \o " ns at " \o ToString(a.clockFrequency) \o " MHz",
            commands    |-> <<"create_clock -period " \o periodToFixed3(a.clockFrequency)
                              \o " [get_ports clk]">>]>>
    ELSE <<>>

generalTips ==
    <<"Use register-to-register paths for best timing",
      "Avoid long combinational clouds",
      "Balance clock tree carefully",
      "Consider using timing exceptions for known multi-cycle paths",
      "Use synthesis constraints to guide optimization">>

\* timingAnalysisTool.execute({ issue, clockFrequency, violationType = 'unknown' })
timingAnalysisTool_execute(a) ==
    LET violationType ==
            IF "violationType" \in DOMAIN a THEN a.violationType ELSE "unknown"
    IN  Normal([issue         |-> a.issue,
                violationType |-> violationType,
                guidance      |-> setupSteps(violationType) \o holdSteps(violationType)
                                  \o clockSteps(a),
                generalTips   |-> generalTips])

(***************************************************************************)
(* The calls the model makes: source fragments, and the sources built from *)
(* them.                                                                   *)
(***************************************************************************)
\* if (a) 
F_if == <<"i","f"," ","(","a",")"," ">>
\* else
F_else == <<"e","l","s","e">>
\* x = b;\n
F_blocking == <<"x"," ","="," ","b",";","\n">>
\*  q <= d;\n
F_nonblocking == <<" ","q"," ","<","="," ","d",";","\n">>
\* always @(posedge clk1)\n
F_clk1 == <<"a","l","w","a","y","s"," ","@","(","p","o","s","e","d","g","e"," ","c","l","k","1",")","\n">>
\* always @ (posedge clk2)\n
F_clk2 == <<"a","l","w","a","y","s"," ","@"," ","(","p","o","s","e","d","g","e"," ","c","l","k","2",")","\n">>
\* always @(posedge clk2 or negedge rst)\n
F_clk2rst == <<"a","l","w","a","y","s"," ","@","(","p","o","s","e","d","g","e"," ","c","l","k","2"," ","o","r"," ","n","e","g","e","d","g","e"," ","r","s","t",")","\n">>
\* always @(a or b)\n
F_comb == <<"a","l","w","a","y","s"," ","@","(","a"," ","o","r"," ","b",")","\n">>
\* case (s)\n
F_case == <<"c","a","s","e"," ","(","s",")","\n">>
\* default: ;\n
F_default == <<"d","e","f","a","u","l","t",":"," ",";","\n">>
\* process\n
F_process == <<"p","r","o","c","e","s","s","\n">>
\*  variable v
F_variable == <<" ","v","a","r","i","a","b","l","e"," ","v">>
\*  signal s 
F_signal == <<" ","s","i","g","n","a","l"," ","s"," ">>

VerilogFragments ==
    {F_if, F_else, F_blocking, F_nonblocking, F_clk1, F_clk2, F_clk2rst, F_comb,
     F_case, F_default}
VhdlFragments == {F_process, F_else, F_variable, F_signal, F_blocking}

\* the most fragments a generated source is made of
MaxFragments == 3

\* the sources made of at most n fragments of F
Sources(F, n) ==
    {Concat(fs) : fs \in UNION {[1..k -> F] : k \in 0..n}}

\* n copies of the character c
Rep(c, n) == [i \in 1..n |-> c]

\* the worked example of the specification
Ex_latch ==
    <<"a","l","w","a","y","s"," ","@","(","a"," ","o","r"," ","b",")"," ","b","e","g","i","n","\n"," "," ","i","f"," ","(","a",")","\n"," "," "," "," ","o","u","t"," ","="," ","b",";","\n","e","n","d">>
\* two clock domains
Ex_two_clocks ==
    <<"a","l","w","a","y","s"," ","@","(","p","o","s","e","d","g","e"," ","c","l","k","1",")","\n"," "," ","q","1"," ","<","="," ","d",";","\n","a","l","w","a","y","s"," ","@","(","p","o","s","e","d","g","e"," ","c","l","k","2",")","\n"," "," ","q","2"," ","<","="," ","q","1",";","\n">>
\* a combinational block with the wildcard list and a complete case
Ex_star ==
    <<"a","l","w","a","y","s"," ","@","(","*",")"," ","b","e","g","i","n","\n"," "," ","c","a","s","e"," ","(","s",")","\n"," "," "," "," ","d","e","f","a","u","l","t",":"," ","y"," ","="," ","a",";","\n"," "," ","e","n","d","c","a","s","e","\n","e","n","d","\n">>
\* a comma-separated sensitivity list after another block
Ex_comma ==
    <<"a","l","w","a","y","s"," ","@","(","p","o","s","e","d","g","e"," ","c","l","k",")"," ","q"," ","<","="," ","d",";","\n","a","l","w","a","y","s"," ","@","(","a"," ",","," ","b",")"," ","y"," ","="," ","a",";","\n">>
\* a VHDL process with a variable and a signal
Ex_vhdl ==
    <<"p","r","o","c","e","s","s"," ","(","c","l","k",")","\n"," ","v","a","r","i","a","b","l","e"," ","v"," ",":"," ","i","n","t","e","g","e","r",";","\n"," ","s","i","g","n","a","l"," ","s"," ",":"," ","b","i","t",";","\n","b","e","g","i","n","\n","e","n","d"," ","p","r","o","c","e","s","s",";">>
\* sources with lines of exactly and of more than LongLineLimit characters
Ex_line120 == Rep("x", LongLineLimit)
Ex_line121 == Rep("x", LongLineLimit + 1)
Ex_long_lines ==
    F_blocking \o F_if \o <<"\n">> \o Rep("y", LongLineLimit + 1) \o <<"\n">>
    \o F_blocking \o Rep("x", LongLineLimit) \o <<"\n">> \o Rep("z", LongLineLimit + 2)

\* the word negedge outside every sensitivity list
Ex_negedge_word ==
    <<"/","/"," ","n","e","g","e","d","g","e"," ","u","n","u","s","e","d","\n","a","s","s","i","g","n"," ","y"," ","="," ","a",";","\n">>
\* an edge-triggered block whose list does not start with the edge keyword
Ex_posedge_second ==
    <<"a","l","w","a","y","s"," ","@","(","r","s","t"," ","o","r"," ","p","o","s","e","d","g","e"," ","c","l","k",")","\n"," ","q"," ","="," ","d",";","\n">>
\* a comma-separated sensitivity list without a blank before the comma
Ex_comma_tight ==
    <<"a","l","w","a","y","s"," ","@","(","a",","," ","b",")","\n"," ","y"," ","="," ","a"," ","&"," ","b",";","\n">>
\* two signals assigned twice, the first one again after the second
Ex_two_repeats ==
    <<"x"," ","="," ","b",";","\n","q"," ","<","="," ","d",";","\n","q"," ","<","="," ","d",";","\n","x"," ","="," ","b",";","\n">>
\* an identifier that contains the letters of case
Ex_case_name ==
    <<"a","s","s","i","g","n"," ","l","o","w","e","r","c","a","s","e"," ","="," ","a",";","\n">>
\* VHDL declarations, the first at the very start of the source
Ex_vhdl_start ==
    <<"s","i","g","n","a","l"," ","s"," ",":"," ","b","i","t",";","\n","v","a","r","i","a","b","l","e"," ","v"," ",":"," ","i","n","t","e","g","e","r",";","\n">>

ExampleSources ==
    {Ex_latch, Ex_two_clocks, Ex_star, Ex_comma, Ex_vhdl,
     Ex_line120, Ex_line121, Ex_long_lines,
     Ex_negedge_word, Ex_posedge_second, Ex_comma_tight, Ex_two_repeats,
     Ex_case_name, Ex_vhdl_start}

Languages == {"verilog", "vhdl"}

\* the { code, language } objects analyzeVerilog is called with
AnalyzeArgs ==
    {[code |-> c, language |-> "verilog"] :
        c \in Sources(VerilogFragments, MaxFragments) \cup ExampleSources}
    \cup
    {[code |-> c, language |-> "vhdl"] :
        c \in Sources(VhdlFragments, MaxFragments) \cup ExampleSources}

(***************************************************************************)
(* The issue detector as a call: analyzeVerilog is invoked with its        *)
(* arguments and returns.                                                  *)
(***************************************************************************)
InitAnalyze ==
    /\ pc = "called"
    /\ tool = "analyzeVerilog"
    /\ args \in AnalyzeArgs
    /\ ret = NoRet
    /\ initialize

AnalyzeVerilog ==
    /\ pc = "called"
    /\ tool = "analyzeVerilog"
    /\ ret' = analyzeVerilogTool_execute(args.code, args.language)
    /\ pc' = "returned"
    /\ UNCHANGED <<tool, args, agentVars>>

NextAnalyze == AnalyzeVerilog

SpecAnalyze == InitAnalyze /\ [][NextAnalyze]_vars

(***************************************************************************)
(* Properties of the issue detector (checked under SpecAnalyze)            *)
(***************************************************************************)
Returned == pc = "returned"
ReturnedVerilog == Returned /\ tool = "analyzeVerilog" /\ args.language = "verilog"

\* kw occurs in code as a whole word
HasKeyword(code, kw) ==
    \E i \in 1..Len(code) :
        /\ MatchAt(code, i, kw)
        /\ (i = 1 \/ code[i - 1] \notin WordChar)
        /\ (i + Len(kw) > Len(code) \/ code[i + Len(kw)] \notin WordChar)

\* the issues of a kind in a returned result
IssuesOfKind(result, kind) ==
    {i \in 1..Len(result.issues) : result.issues[i].type = kind}

\* C1 (as stated): for Verilog, a source with an `if` keyword and no `else`
\* keyword gets exactly one latch_inference issue, a warning; a source with
\* both keywords gets none.
C1_LatchByKeyword ==
    (ReturnedVerilog /\ ret.type = "normal") =>
        LET latches == IssuesOfKind(ret.value, "latch_inference")
            hasIf   == HasKeyword(args.code, kw_if)
            hasElse == HasKeyword(args.code, kw_else)
        IN  /\ (hasIf /\ ~hasElse) =>
                   /\ Cardinality(latches) = 1
                   /\ \A i \in latches : ret.value.issues[i].severity = "warning"
            /\ (hasIf /\ hasElse) => latches = {}

\* C2: analyze never fails: every call, for either language and for every
\* source, the empty one included, returns an AnalysisResult (a count, an
\* issue sequence, a summary), never an exception.
C2_NeverThrows ==
    (Returned /\ tool = "analyzeVerilog") =>
        /\ ret.type = "normal"
        /\ DOMAIN ret.value = {"totalIssues", "issues", "summary"}
        /\ ret.value.totalIssues \in Nat
        /\ DOMAIN ret.value.issues = 1..Len(ret.value.issues)

\* C2 witness: the call on the empty string has returned a result without issues.
C2_Witness ==
    /\ Returned /\ tool = "analyzeVerilog"
    /\ args.code = <<>>
    /\ ret.type = "normal"
    /\ ret.value.issues = <<>>

\* the summary template of the specification, over a sequence of severities
SummaryOfSeverities(sevs) ==
    LET Count(v) == Cardinality({i \in 1..Len(sevs) : sevs[i] = v})
        Part(v, label) ==
            IF Count(v) > 0 THEN <<ToString(Count(v)) \o label>> ELSE <<>>
    IN  IF sevs = <<>> THEN "No issues found. Code looks good!"
        ELSE "Found " \o ToString(Len(sevs)) \o " issue(s): "
             \o Join(Part("error", " error(s)") \o Part("warning", " warning(s)")
                     \o Part("info", " info"), ", ")

\* C3: in every returned result totalIssues is the length of the issue
\* sequence and summary is the template applied to the severities of that
\* same sequence.
C3_CountAndSummary ==
    (Returned /\ tool = "analyzeVerilog" /\ ret.type = "normal") =>
        /\ ret.value.totalIssues = Len(ret.value.issues)
        /\ ret.value.summary =
               SummaryOfSeverities([i \in 1..Len(ret.value.issues) |->
                                        ret.value.issues[i].severity])

\* C3 witness: a result whose last issue comes from the generic check, after
\* issues of other severities.
C3_Witness ==
    /\ Returned /\ tool = "analyzeVerilog" /\ ret.type = "normal"
    /\ Len(ret.value.issues) >= 3
    /\ ret.value.issues[Len(ret.value.issues)].type = "style"
    /\ \E i \in 1..Len(ret.value.issues) : ret.value.issues[i].severity = "error"

NoIssuesSummary == "No issues found. Code looks good!"

\* C4: analyze("", "verilog") returns no issues, a count of 0 and the fixed
\* summary, and the fixed summary is returned exactly when there is no issue.
C4_EmptySource ==
    (Returned /\ tool = "analyzeVerilog" /\ ret.type = "normal") =>
        /\ (args.code = <<>> /\ args.language = "verilog") =>
               ret.value = [totalIssues |-> 0, issues |-> <<>>,
                            summary |-> NoIssuesSummary]
        /\ (ret.value.summary = NoIssuesSummary) <=> (ret.value.issues = <<>>)

\* C4 witness: analyze("", "verilog") has returned.
C4_Witness ==
    /\ ReturnedVerilog
    /\ args.code = <<>>
    /\ ret.type = "normal"
    /\ ret.value.summary = NoIssuesSummary

\* the incomplete-sensitivity message naming the given identifiers
MissingMessage(names) ==
    "Potentially incomplete sensitivity list. Missing signals: " \o names

\* C6 (as stated): for the worked example the result has a latch_inference
\* warning on line 2, an incomplete_sensitivity warning naming only `out`, and
\* no blocking_in_sequential issue.
C6_ExampleNamesOut ==
    (ReturnedVerilog /\ args.code = Ex_latch /\ ret.type = "normal") =>
        /\ \E i \in IssuesOfKind(ret.value, "latch_inference") :
               /\ ret.value.issues[i].severity = "warning"
               /\ ret.value.issues[i].line = 2
        /\ \E i \in IssuesOfKind(ret.value, "incomplete_sensitivity") :
               /\ ret.value.issues[i].severity = "warning"
               /\ ret.value.issues[i].message = MissingMessage("out")
        /\ IssuesOfKind(ret.value, "blocking_in_sequential") = {}

\* C6 (amended): for the worked example the result has a latch_inference
\* warning on line 2, an incomplete_sensitivity warning naming `or` and `out`
\* (extractSignals keeps the separator word `or`, which is not in its
\* blocklist), and no blocking_in_sequential issue.
C6_ExampleNamesOrOut ==
    (ReturnedVerilog /\ args.code = Ex_latch /\ ret.type = "normal") =>
        /\ \E i \in IssuesOfKind(ret.value, "latch_inference") :
               /\ ret.value.issues[i].severity = "warning"
               /\ ret.value.issues[i].line = 2
        /\ \E i \in IssuesOfKind(ret.value, "incomplete_sensitivity") :
               /\ ret.value.issues[i].severity = "warning"
               /\ ret.value.issues[i].message = MissingMessage("or, out")
        /\ Cardinality(IssuesOfKind(ret.value, "incomplete_sensitivity")) = 1
        /\ IssuesOfKind(ret.value, "blocking_in_sequential") = {}

\* C6 witness: the analysis of the worked example has returned.
C6_Witness ==
    /\ ReturnedVerilog /\ args.code = Ex_latch /\ ret.type = "normal"
    /\ IssuesOfKind(ret.value, "incomplete_sensitivity") # {}

\* the signal names that follow `posedge` in the sensitivity specifications of
\* the always blocks of the source
HeaderClocks(code) ==
    LET Lists == {SubSeq(code, AlwaysHeaderAt(code, i),
                         CloseParenFrom(code, AlwaysHeaderAt(code, i)) - 1) :
                     i \in {j \in 1..Len(code) :
                               /\ AlwaysHeaderAt(code, j) > 0
                               /\ CloseParenFrom(code, AlwaysHeaderAt(code, j)) > 0}}
        NamesIn(list) ==
            {SubSeq(list, SkipClass(list, q + Len(kw_posedge), SpaceChar),
                    SkipClass(list, SkipClass(list, q + Len(kw_posedge), SpaceChar),
                              WordChar) - 1) :
                q \in {r \in 1..Len(list) :
                          /\ MatchAt(list, r, kw_posedge)
                          /\ r + Len(kw_posedge) <= Len(list)
                          /\ list[r + Len(kw_posedge)] \in SpaceChar}}
    IN  UNION {NamesIn(l) : l \in Lists} \ {<<>>}

\* C7 (as stated): for Verilog, exactly one clock_domain_crossing warning when
\* the names following `posedge` in the block headers include two or more
\* distinct names, whatever else the headers list, and none otherwise.
C7_CdcByHeaderClocks ==
    (ReturnedVerilog /\ ret.type = "normal") =>
        LET cdc == IssuesOfKind(ret.value, "clock_domain_crossing")
        IN  /\ Cardinality(cdc) =
                   (IF Cardinality(HeaderClocks(args.code)) >= 2 THEN 1 ELSE 0)
            /\ \A i \in cdc : ret.value.issues[i].severity = "warning"

\* the severity the specification fixes for each kind
SeverityOfKind ==
    [blocking_in_sequential |-> "error",
     multiple_assignments   |-> "error",
     latch_inference        |-> "warning",
     no_case_default        |-> "warning",
     incomplete_sensitivity |-> "warning",
     clock_domain_crossing  |-> "warning",
     mixed_variable_signal  |-> "info",
     style                  |-> "info"]

\* the number of lines of a source
LineCount(code) == Cardinality(NewlinesOf(code)) + 1

\* C8: every issue has a non-empty message and suggestion, the severity fixed
\* for its kind, and a line, when present, between 1 and the number of lines
\* of the source.
C8_IssueWellFormed ==
    (Returned /\ tool = "analyzeVerilog" /\ ret.type = "normal") =>
        \A i \in 1..Len(ret.value.issues) :
            LET issue == ret.value.issues[i]
            IN  /\ issue.message # "" /\ issue.suggestion # ""
                /\ issue.type \in DOMAIN SeverityOfKind
                /\ issue.severity = SeverityOfKind[issue.type]
                /\ "line" \in DOMAIN issue =>
                       (1 <= issue.line /\ issue.line <= LineCount(args.code))

\* C8 witness: a result with an issue that carries a line beyond the first,
\* next to an error and an info issue.
C8_Witness ==
    /\ Returned /\ tool = "analyzeVerilog" /\ ret.type = "normal"
    /\ \E i \in 1..Len(ret.value.issues) :
           /\ "line" \in DOMAIN ret.value.issues[i]
           /\ ret.value.issues[i].line > 1
    /\ \E i \in 1..Len(ret.value.issues) : ret.value.issues[i].severity = "error"
    /\ \E i \in 1..Len(ret.value.issues) : ret.value.issues[i].severity = "info"

(***************************************************************************)
(* generateSummary as a call                                               *)
(***************************************************************************)
\* the most issues of a sequence handed to generateSummary
MaxIssues == 4

\* one issue of each severity
SampleIssues ==
    {[type |-> "multiple_assignments", severity |-> "error",
      message |-> "Signal 'x' assigned multiple times",
      suggestion |-> "Ensure each signal is assigned in only one always block or assign statement"],
     [type |-> "no_case_default", severity |-> "warning",
      message |-> "Case statement without default clause",
      suggestion |-> "Add a default clause to handle unexpected values"],
     [type |-> "style", severity |-> "info",
      message |-> "1 lines exceed 120 characters",
      suggestion |-> "Consider breaking long lines for better readability"]}

SummaryArgs ==
    {[issues |-> s] : s \in UNION {[1..k -> SampleIssues] : k \in 0..MaxIssues}}

InitSummary ==
    /\ pc = "called"
    /\ tool = "generateSummary"
    /\ args \in SummaryArgs
    /\ ret = NoRet
    /\ initialize

GenerateSummary ==
    /\ pc = "called"
    /\ tool = "generateSummary"
    /\ ret' = Normal(generateSummary(args.issues))
    /\ pc' = "returned"
    /\ UNCHANGED <<tool, args, agentVars>>

NextSummary == GenerateSummary

SpecSummary == InitSummary /\ [][NextSummary]_vars

\* C5: for a non-empty issue sequence with e errors, w warnings and i infos the
\* summary is "Found {e+w+i} issue(s): " followed by "{e} error(s)",
\* "{w} warning(s)", "{i} info" for the counts above zero, in that order,
\* joined by ", ".
C5_SummaryFormat ==
    (Returned /\ tool = "generateSummary" /\ args.issues # <<>>) =>
        LET e  == CountSeverity(args.issues, "error")
            w  == CountSeverity(args.issues, "warning")
            i  == CountSeverity(args.issues, "info")
            E  == ToString(e) \o " error(s)"
            W  == ToString(w) \o " warning(s)"
            I  == ToString(i) \o " info"
            shown ==
                CASE e > 0 /\ w > 0 /\ i > 0 -> E \o ", " \o W \o ", " \o I
                  [] e > 0 /\ w > 0 /\ i = 0 -> E \o ", " \o W
                  [] e > 0 /\ w = 0 /\ i > 0 -> E \o ", " \o I
                  [] e > 0 /\ w = 0 /\ i = 0 -> E
                  [] e = 0 /\ w > 0 /\ i > 0 -> W \o ", " \o I
                  [] e = 0 /\ w > 0 /\ i = 0 -> W
                  [] e = 0 /\ w = 0 /\ i > 0 -> I
                  [] OTHER -> ""
        IN  /\ ret.type = "normal"
            /\ ret.value = "Found " \o ToString(e + w + i) \o " issue(s): " \o shown

\* C5 witness: a summary of errors, warnings and infos together, one of them
\* counted more than once.
C5_Witness ==
    /\ Returned /\ tool = "generateSummary"
    /\ CountSeverity(args.issues, "error") > 0
    /\ CountSeverity(args.issues, "warning") > 1
    /\ CountSeverity(args.issues, "info") > 0
    /\ ret.value = "Found 4 issue(s): 1 error(s), 2 warning(s), 1 info"

(***************************************************************************)
(* extractSignals as a call                                                *)
(***************************************************************************)
\* the pieces the sources of the extractor calls are made of: keywords,
\* identifier parts, a digit, white space and punctuation
ExtractAtoms ==
    {kw_if, kw_end, kw_module, <<"x", "1">>, <<"1">>, <<" ">>, <<"\n">>, <<"=">>}

\* the most pieces of such a source
MaxAtoms == 4

ExtractArgs ==
    {[code |-> c] : c \in Sources(ExtractAtoms, MaxAtoms) \cup {Ex_latch, Ex_comma}}

InitExtract ==
    /\ pc = "called"
    /\ tool = "extractSignals"
    /\ args \in ExtractArgs
    /\ ret = NoRet
    /\ initialize

ExtractSignals ==
    /\ pc = "called"
    /\ tool = "extractSignals"
    /\ ret' = Normal(extractSignals(args.code))
    /\ pc' = "returned"
    /\ UNCHANGED <<tool, args, agentVars>>

NextExtract == ExtractSignals

SpecExtract == InitExtract /\ [][NextExtract]_vars

\* the identifier tokens of a source: the maximal runs of word characters
\* that start with a letter or an underscore
IdentifierTokens(code) ==
    {SubSeq(code, i, j) : <<i, j>> \in
        {<<i, j>> \in (1..Len(code)) \X (1..Len(code)) :
            /\ i <= j
            /\ code[i] \in IdentStart
            /\ \A k \in i..j : code[k] \in WordChar
            /\ (i = 1 \/ code[i - 1] \notin WordChar)
            /\ (j = Len(code) \/ code[j + 1] \notin WordChar)}}

\* the blocklist the specification gives
BlocklistWords ==
    {<<"a","l","w","a","y","s">>, <<"i","f">>, <<"e","l","s","e">>, <<"c","a","s","e">>,
     <<"b","e","g","i","n">>, <<"e","n","d">>, <<"m","o","d","u","l","e">>,
     <<"e","n","d","m","o","d","u","l","e">>}

\* the sources that differ from code in white space only, by one step: one
\* white-space character replaced by another, doubled, or dropped from a run
Reformattings(code) ==
    LET ws == {i \in 1..Len(code) : code[i] \in SpaceChar}
    IN  {[code EXCEPT ![i] = w] : i \in ws, w \in {" ", "\n", "\t"}}
        \cup {SubSeq(code, 1, i) \o <<w>> \o SubSeq(code, i + 1, Len(code)) :
                 i \in ws, w \in {" ", "\n", "\t"}}
        \cup {SubSeq(code, 1, i - 1) \o SubSeq(code, i + 1, Len(code)) :
                 i \in {j \in ws : j > 1 /\ code[j - 1] \in SpaceChar}}

\* C9: extractSignals returns exactly the distinct identifier tokens of the
\* source that are not on the blocklist, each once, and the same set for every
\* source that differs in white space only.
C9_ExtractSignals ==
    (Returned /\ tool = "extractSignals") =>
        /\ ret.type = "normal"
        /\ Range(ret.value) = IdentifierTokens(args.code) \ BlocklistWords
        /\ Cardinality(Range(ret.value)) = Len(ret.value)
        /\ \A v \in Reformattings(args.code) :
               Range(extractSignals(v)) = Range(ret.value)

\* C9 witness: a source with a blocked keyword, a repeated identifier and
\* white space between them.
C9_Witness ==
    /\ Returned /\ tool = "extractSignals"
    /\ args.code = Ex_latch
    /\ ret.value = <<<<"a">>, kw_or, <<"b">>, <<"o", "u", "t">>>>

(***************************************************************************)
(* timingAnalysis as a call                                                *)
(***************************************************************************)
IssueTexts == {"x", "setup violation on path A", ""}
ViolationTypes == {"setup", "hold", "both", "unknown"}
ClockFrequencies == {-100, 0, 3, 7, 100, 128}

\* the argument objects: clockFrequency and violationType are optional
TimingArgs ==
    {[issue |-> i] : i \in IssueTexts}
    \cup {[issue |-> i, violationType |-> v] : i \in IssueTexts, v \in ViolationTypes}
    \cup {[issue |-> i, clockFrequency |-> f] : i \in IssueTexts, f \in ClockFrequencies}
    \cup {[issue |-> i, clockFrequency |-> f, violationType |-> v] :
             i \in IssueTexts, f \in ClockFrequencies, v \in ViolationTypes}

InitTiming ==
    /\ pc = "called"
    /\ tool = "timingAnalysis"
    /\ args \in TimingArgs
    /\ ret = NoRet
    /\ initialize

TimingAnalysis ==
    /\ pc = "called"
    /\ tool = "timingAnalysis"
    /\ ret' = timingAnalysisTool_execute(args)
    /\ pc' = "returned"
    /\ UNCHANGED <<tool, args, agentVars>>

NextTiming == TimingAnalysis

SpecTiming == InitTiming /\ [][NextTiming]_vars

SetupStepNames ==
    <<"Identify Critical Path", "Analyze Path Components", "Optimization Strategies">>
HoldStepNames == <<"Check Hold Violations", "Hold Fixing">>

\* C10: the steps depend on violationType alone: setup gives the three setup
\* steps, hold the two hold steps, both the setup steps then the hold steps,
\* unknown or omitted none; the result echoes issue and violationType (unknown
\* when omitted) and carries the five general tips.
C10_TimingSteps ==
    (Returned /\ tool = "timingAnalysis") =>
        /\ ret.type = "normal"
        /\ LET vt    == IF "violationType" \in DOMAIN args
                        THEN args.violationType ELSE "unknown"
               names == [i \in 1..Len(ret.value.guidance) |-> ret.value.guidance[i].step]
               byType == SelectSeq(names, LAMBDA n : n # "Clock Period Analysis")
               tail   == SubSeq(names, Len(byType) + 1, Len(names))
           IN  /\ byType = CASE vt = "setup" -> SetupStepNames
                             [] vt = "hold"  -> HoldStepNames
                             [] vt = "both"  -> SetupStepNames \o HoldStepNames
                             [] OTHER        -> <<>>
               /\ SubSeq(names, 1, Len(byType)) = byType
               /\ \A i \in 1..Len(tail) : tail[i] = "Clock Period Analysis"
               /\ ret.value.issue = args.issue
               /\ ret.value.violationType = vt
               /\ Len(ret.value.generalTips) = 5
               /\ ret.value.generalTips = generalTips

\* C10 witness: a call with violationType both has returned the five steps.
C10_Witness ==
    /\ Returned /\ tool = "timingAnalysis"
    /\ "violationType" \in DOMAIN args /\ args.violationType = "both"
    /\ "clockFrequency" \notin DOMAIN args
    /\ Len(ret.value.guidance) = 5

\* the steps of the guidance that are clock-period steps
ClockPeriodSteps ==
    {i \in 1..Len(ret.value.guidance) :
        ret.value.guidance[i].step = "Clock Period Analysis"}

\* C11: whenever clockFrequency is supplied, zero and negative values
\* included, exactly one clock-period step is appended, after the steps of the
\* violation type; when it is omitted there is no such step.
C11_ClockStepWhenSupplied ==
    (Returned /\ tool = "timingAnalysis") =>
        /\ ret.type = "normal"
        /\ "clockFrequency" \in DOMAIN args =>
               ClockPeriodSteps = {Len(ret.value.guidance)}
        /\ "clockFrequency" \notin DOMAIN args => ClockPeriodSteps = {}

\* 1000 / f rounded to the thousandth, in thousandths, for an integer f > 0:
\* of the two thousandths around the quotient the nearer one, the upper one
\* when both are equally near
RoundedThousandths(f) ==
    LET below == (1000 * 1000) \div f
    IN  IF 2 * (1000 * 1000 - below * f) >= f THEN below + 1 ELSE below

\* a number of thousandths with a sign, written with three decimals
ThreeDecimals(negative, n) ==
    (IF negative THEN "-" ELSE "")
    \o ToString(n \div 1000) \o "."
    \o ToString((n \div 100) % 10) \o ToString((n \div 10) % 10) \o ToString(n % 10)

\* C12: the clock-period step carries 1000 / clockFrequency rounded to three
\* decimals, in its description and in the create_clock command; for
\* ("x", 100, "setup") it is the last step and the period is 10.000.
C12_PeriodThreeDecimals ==
    (Returned /\ tool = "timingAnalysis" /\ ClockPeriodSteps # {}) =>
        \A i \in ClockPeriodSteps :
            LET f      == args.clockFrequency
                period == ThreeDecimals(f < 0, RoundedThousandths(IF f < 0 THEN -f ELSE f))
            IN  /\ ret.value.guidance[i].commands
                       = <<"create_clock -period " \o period \o " [get_ports clk]">>
                /\ ret.value.guidance[i].description
                       = "Target clock period: " \o period \o " ns at "
                         \o ToString(f) \o " MHz"
                /\ (args = [issue |-> "x", clockFrequency |-> 100, violationType |-> "setup"]) =>
                       /\ i = Len(ret.value.guidance)
                       /\ ret.value.guidance[i].commands
                              = <<"create_clock -period 10.000 [get_ports clk]">>

\* C12 witness: the call ("x", 100, "setup") has returned its four steps, the
\* last one with the period 10.000.
C12_Witness ==
    /\ Returned /\ tool = "timingAnalysis"
    /\ args = [issue |-> "x", clockFrequency |-> 100, violationType |-> "setup"]
    /\ Len(ret.value.guidance) = 4
    /\ ret.value.guidance[4].commands = <<"create_clock -period 10.000 [get_ports clk]">>

(***************************************************************************)
(* detectCDCIssuesTool.execute                                             *)
(***************************************************************************)
\* the value of a parameter that was not supplied
Undefined == "undefined"

\* the verilogExample template literals
twoFlopExample ==
    "\n// Two-flop synchronizer for single-bit signal\nreg sync_ff1, sync_ff2;\n\nalways @(posedge clk_dest or negedge rst_n) begin\n  if (!rst_n) begin\n    sync_ff1 <= 1'b0;\n    sync_ff2 <= 1'b0;\n  end else begin\n    sync_ff1 <= signal_from_source_domain;\n    sync_ff2 <= sync_ff1;\n  end\nend\n\nassign synced_signal = sync_ff2;"
grayCodeExample ==
    "\n// Gray code counter for CDC\nfunction [N-1:0] bin2gray;\n  input [N-1:0] bin;\n  begin\n    bin2gray = bin ^ (bin >> 1);\n  end\nendfunction\n\n// In source domain\ngray_counter <= bin2gray(binary_counter);\n\n// In destination domain (synchronize each bit)\nalways @(posedge clk_dest) begin\n  gray_sync1 <= gray_counter;\n  gray_sync2 <= gray_sync1;\nend"
toggleHandshakeExample ==
    "\n// Handshake protocol for data bus\n// Source domain\nalways @(posedge clk_src) begin\n  if (data_valid && !req) begin\n    req <= ~req;  // Toggle request\n    data_reg <= data;\n  end\nend\n\n// Destination domain\nalways @(posedge clk_dest) begin\n  req_sync1 <= req;\n  req_sync2 <= req_sync1;\n  req_sync3 <= req_sync2;\n  \n  if (req_sync2 != req_sync3) begin\n    // New data available\n    data_out <= data_reg;\n  end\nend"
fourPhaseExample ==
    "\n// Four-phase handshake CDC\n// Source domain\nalways @(posedge clk_src) begin\n  if (send_data && !req && ack_synced) begin\n    data_reg <= data_in;\n    req <= 1'b1;\n  end else if (req && ack_synced) begin\n    req <= 1'b0;\n  end\nend\n\n// Sync ack back to source\nalways @(posedge clk_src) begin\n  ack_sync1 <= ack;\n  ack_synced <= ack_sync1;\nend\n\n// Destination domain\nalways @(posedge clk_dest) begin\n  req_sync1 <= req;\n  req_sync2 <= req_sync1;\n  \n  if (req_sync2 && !ack) begin\n    data_out <= data_reg;\n    ack <= 1'b1;\n  end else if (!req_sync2 && ack) begin\n    ack <= 1'b0;\n  end\nend"

\* Mutant: the two-flop recommendation only for an explicit single-bit.
singleBitRecommendations_explicitOnly(signalType) ==
    IF signalType = "single-bit"
    THEN <<[scenario       |-> "Single-bit CDC crossing",
            solution       |-> "Use a two-flop synchronizer",
            verilogExample |-> twoFlopExample]>>
    ELSE <<>>

\* if (signalType === 'single-bit' || !signalType): the values of the enum are
\* non-empty strings, so !signalType holds for undefined alone
singleBitRecommendations(signalType) ==
    IF signalType = "single-bit" \/ signalType = Undefined
    THEN <<[scenario       |-> "Single-bit CDC crossing",
            solution       |-> "Use a two-flop synchronizer",
            verilogExample |-> twoFlopExample]>>
    ELSE <<>>

\* if (signalType === 'multi-bit' || signalType === 'bus')
busRecommendations(signalType) ==
    IF signalType = "multi-bit" \/ signalType = "bus"
    THEN <<[scenario       |-> "Multi-bit bus crossing",
            solution       |-> "Use Gray code encoding or handshake protocol",
            verilogExample |-> grayCodeExample],
           [scenario       |-> "Data bus with enable signal",
            solution       |-> "Use toggle-based or handshake protocol",
            verilogExample |-> toggleHandshakeExample]>>
    ELSE <<>>

\* if (signalType === 'handshake')
handshakeRecommendations(signalType) ==
    IF signalType = "handshake"
    THEN <<[scenario       |-> "Handshake-based data transfer",
            solution       |-> "Four-phase handshake with proper synchronization",
            verilogExample |-> fourPhaseExample]>>
    ELSE <<>>

generalGuidelines ==
    <<"Never cross multi-bit buses without proper synchronization",
      "Use gray code for counters and pointers",
      "Always use at least two flops for synchronization",
      "Consider metastability recovery time (MTBF)",
      "Use async FIFOs for high-bandwidth data transfers",
      "Verify CDC paths with formal tools (Jasper, VC Formal)">>

toolRecommendations ==
    <<"Synopsys SpyGlass CDC verification",
      "Cadence JasperGold CDC",
      "Real Intent Meridian CDC">>

\* the signalType the destructuring of the argument object binds
signalTypeOf(a) == IF "signalType" \in DOMAIN a THEN a.signalType ELSE Undefined

\* detectCDCIssuesTool.execute({ description, signalType })
detectCDCIssuesTool_execute(a) ==
    Normal([description        |-> a.description,
            signalType         |-> signalTypeOf(a),
            recommendations    |-> singleBitRecommendations(signalTypeOf(a))
                                   \o busRecommendations(signalTypeOf(a))
                                   \o handshakeRecommendations(signalTypeOf(a)),
            generalGuidelines  |-> generalGuidelines,
            toolRecommendations |-> toolRecommendations])

(***************************************************************************)
(* detectCDCIssues as a call                                               *)
(***************************************************************************)
SignalTypes == {"single-bit", "multi-bit", "bus", "handshake"}

\* descriptions of a CDC scenario: what crosses, and between which domains
DescriptionTexts ==
    {what \o between :
        what \in {"", "flag", "counter", "data bus"},
        between \in {"", " from clk_a to clk_b", " into the 100 MHz domain"}}

\* the argument objects: signalType is optional
CdcArgs ==
    {[description |-> d] : d \in DescriptionTexts}
    \cup {[description |-> d, signalType |-> t] : d \in DescriptionTexts, t \in SignalTypes}

InitCdc ==
    /\ pc = "called"
    /\ tool = "detectCDCIssues"
    /\ args \in CdcArgs
    /\ ret = NoRet
    /\ initialize

DetectCDCIssues ==
    /\ pc = "called"
    /\ tool = "detectCDCIssues"
    /\ ret' = detectCDCIssuesTool_execute(args)
    /\ pc' = "returned"
    /\ UNCHANGED <<tool, args, agentVars>>

NextCdc == DetectCDCIssues

SpecCdc == InitCdc /\ [][NextCdc]_vars

\* the signalType that the claim pairs with t: omitted with single-bit,
\* multi-bit with bus
PairedSignalType(t) ==
    CASE t = Undefined    -> "single-bit"
      [] t = "single-bit" -> Undefined
      [] t = "multi-bit"  -> "bus"
      [] t = "bus"        -> "multi-bit"
      [] OTHER            -> t

\* the argument object with description d and signalType t (omitted when t is
\* Undefined)
CdcCall(d, t) ==
    IF t = Undefined THEN [description |-> d]
    ELSE [description |-> d, signalType |-> t]

\* C13: the recommendations depend on signalType alone: single-bit and
\* omitted give the same single two-flop recommendation, multi-bit and bus the
\* same two (gray code, then handshake protocol), handshake the single
\* four-phase one; each has an example; the six general guidelines and the
\* three tool recommendations are the same for every argument.
C13_CdcRecommendations ==
    (Returned /\ tool = "detectCDCIssues") =>
        /\ ret.type = "normal"
        /\ LET t    == signalTypeOf(args)
               recs == ret.value.recommendations
           IN  /\ t \in {"single-bit", Undefined} =>
                      /\ Len(recs) = 1
                      /\ recs[1].solution = "Use a two-flop synchronizer"
               /\ t \in {"multi-bit", "bus"} =>
                      /\ Len(recs) = 2
                      /\ recs[1].solution = "Use Gray code encoding or handshake protocol"
                      /\ recs[2].solution = "Use toggle-based or handshake protocol"
               /\ t = "handshake" =>
                      /\ Len(recs) = 1
                      /\ recs[1].solution = "Four-phase handshake with proper synchronization"
               /\ \A i \in 1..Len(recs) :
                      /\ "verilogExample" \in DOMAIN recs[i]
                      /\ recs[i].verilogExample # ""
               /\ \A d \in DescriptionTexts :
                      detectCDCIssuesTool_execute(CdcCall(d, PairedSignalType(t)))
                          .value.recommendations = recs
        /\ Len(ret.value.generalGuidelines) = 6
        /\ Len(ret.value.toolRecommendations) = 3
        /\ \A a \in CdcArgs :
               /\ detectCDCIssuesTool_execute(a).value.generalGuidelines
                      = ret.value.generalGuidelines
               /\ detectCDCIssuesTool_execute(a).value.toolRecommendations
                      = ret.value.toolRecommendations

\* C13 witness: a call without signalType has returned the two-flop
\* recommendation.
C13_Witness ==
    /\ Returned /\ tool = "detectCDCIssues"
    /\ "signalType" \notin DOMAIN args
    /\ Len(ret.value.recommendations) = 1
    /\ ret.value.recommendations[1].scenario = "Single-bit CDC crossing"

\* the sensitivity specifications of the always blocks of a source: the text
\* between the parentheses of each always @( ... ) header
SensitivityLists(code) ==
    {SubSeq(code, AlwaysHeaderAt(code, i),
            CloseParenFrom(code, AlwaysHeaderAt(code, i)) - 1) :
        i \in {j \in 1..Len(code) :
                  /\ AlwaysHeaderAt(code, j) > 0
                  /\ CloseParenFrom(code, AlwaysHeaderAt(code, j)) > 0}}

\* a sensitivity specification with an edge keyword
EdgeTriggered(list) == HasKeyword(list, kw_posedge) \/ HasKeyword(list, kw_negedge)

\* C14 (as stated): for Verilog, one blocking_in_sequential error exactly when
\* some always header has posedge or negedge in its sensitivity specification
\* and the source contains "=" and no "<="; never when no sensitivity
\* specification holds an edge keyword.
C14_BlockingByEdgeHeader ==
    (ReturnedVerilog /\ ret.type = "normal") =>
        LET blocking == IssuesOfKind(ret.value, "blocking_in_sequential")
            edge     == \E list \in SensitivityLists(args.code) : EdgeTriggered(list)
            onlyEq   == Includes(args.code, <<"=">>) /\ ~Includes(args.code, <<"<", "=">>)
        IN  /\ Cardinality(blocking) = (IF edge /\ onlyEq THEN 1 ELSE 0)
            /\ \A i \in blocking : ret.value.issues[i].severity = "error"

\* the identifiers listed in a sensitivity specification: its identifier
\* tokens other than the separator `or`
ListedIdentifiers(list) == IdentifierTokens(list) \ {kw_or}

\* the members of a sequence of distinct names that are in a set, in order, as
\* the text of missing.join(', ')
JoinedMembers(names, keep) ==
    Join(Strs(SelectSeq(names, LAMBDA n : n \in keep)), ", ")

\* C15 (as stated): for a source with a single always header, one without an
\* edge keyword, the identifiers named as missing are extractSignals(source)
\* minus the identifiers listed between the parentheses (separated by commas
\* or `or`, with any spacing), and the issue is emitted exactly when that
\* difference is not empty.
C15_MissingIsUsedMinusListed ==
    (ReturnedVerilog /\ ret.type = "normal") =>
        \A list \in SensitivityLists(args.code) :
            (Cardinality({i \in 1..Len(args.code) : AlwaysHeaderAt(args.code, i) > 0}) = 1
             /\ ~EdgeTriggered(list)) =>
                LET used    == extractSignals(args.code)
                    missing == Range(used) \ ListedIdentifiers(list)
                    found   == IssuesOfKind(ret.value, "incomplete_sensitivity")
                IN  /\ Cardinality(found) = (IF missing = {} THEN 0 ELSE 1)
                    /\ \A i \in found :
                           ret.value.issues[i].message
                               = MissingMessage(JoinedMembers(used, missing))

\* C16 (as stated): for Verilog, one incomplete_sensitivity warning exactly
\* when some always block of the source, wherever it stands, has a sensitivity
\* specification without an edge keyword whose listed identifiers do not cover
\* the identifiers the source refers to; an edge-triggered block never causes
\* the issue.
C16_SensitivityOfAnyBlock ==
    (ReturnedVerilog /\ ret.type = "normal") =>
        LET found     == IssuesOfKind(ret.value, "incomplete_sensitivity")
            uncovered ==
                \E list \in SensitivityLists(args.code) :
                    /\ ~EdgeTriggered(list)
                    /\ Range(extractSignals(args.code)) \ ListedIdentifiers(list) # {}
        IN  /\ Cardinality(found) = (IF uncovered THEN 1 ELSE 0)
            /\ \A i \in found : ret.value.issues[i].severity = "warning"

\* the positions where the assignment pattern finds a target: the start of a
\* run of word characters that is followed, after optional white space, by
\* "=" or "<="
TargetPositions(code) ==
    {i \in 1..Len(code) :
        /\ code[i] \in WordChar
        /\ (i = 1 \/ code[i - 1] \notin WordChar)
        /\ \E k \in {SkipClass(code, SkipClass(code, i, WordChar), SpaceChar)} :
               \/ MatchAt(code, k, <<"=">>)
               \/ MatchAt(code, k, <<"<", "=">>)}

\* the target that starts at position i
TargetAt(code, i) == SubSeq(code, i, SkipClass(code, i, WordChar) - 1)

\* the first assignments of the targets that are assigned more than once
RepeatedTargets(code) ==
    {i \in TargetPositions(code) :
        /\ \A j \in TargetPositions(code) :
               j < i => TargetAt(code, j) # TargetAt(code, i)
        /\ \E j \in TargetPositions(code) :
               j > i /\ TargetAt(code, j) = TargetAt(code, i)}

\* the k-th smallest member of a set of numbers
Kth(S, k) == CHOOSE i \in S : Cardinality({j \in S : j < i}) = k - 1

\* C17: for Verilog, each target of the assignment pattern that is matched
\* more than once gets exactly one multiple_assignments error naming it, a
\* target matched once gets none, and the errors are in the order of the
\* targets' first assignments.
C17_MultipleAssignments ==
    (ReturnedVerilog /\ ret.type = "normal") =>
        LET found    == IssuesOfKind(ret.value, "multiple_assignments")
            repeated == RepeatedTargets(args.code)
        IN  /\ Cardinality(found) = Cardinality(repeated)
            /\ \A k \in 1..Cardinality(found) :
                   /\ ret.value.issues[Kth(found, k)].message
                          = "Signal '" \o Str(TargetAt(args.code, Kth(repeated, k)))
                            \o "' assigned multiple times"
                   /\ ret.value.issues[Kth(found, k)].severity = "error"

\* C17 witness: the source that assigns x, q, q, x has returned two errors,
\* the first naming x and the second q.
C17_Witness ==
    /\ ReturnedVerilog /\ ret.type = "normal"
    /\ args.code = Ex_two_repeats
    /\ Cardinality(IssuesOfKind(ret.value, "multiple_assignments")) = 2
    /\ ret.value.issues[1].message = "Signal 'x' assigned multiple times"
    /\ ret.value.issues[2].message = "Signal 'q' assigned multiple times"

\* C18 (as stated): for Verilog, exactly one no_case_default warning when the
\* source has a `case` keyword and no `default` keyword, and none when it has
\* a `default` keyword or no `case` keyword.
C18_CaseDefaultByKeyword ==
    (ReturnedVerilog /\ ret.type = "normal") =>
        LET found == IssuesOfKind(ret.value, "no_case_default")
        IN  /\ Cardinality(found) =
                   (IF /\ HasKeyword(args.code, kw_case)
                       /\ ~HasKeyword(args.code, kw_default)
                    THEN 1 ELSE 0)
            /\ \A i \in found : ret.value.issues[i].severity = "warning"

ReturnedVhdl == Returned /\ tool = "analyzeVerilog" /\ args.language = "vhdl"

\* C19 (as stated): for VHDL, a mixed_variable_signal info issue exactly when
\* the source has both a `variable` keyword and a `signal` keyword, wherever
\* they stand, the very start and the very end of the source included.
C19_MixedByKeyword ==
    (ReturnedVhdl /\ ret.type = "normal") =>
        LET found == IssuesOfKind(ret.value, "mixed_variable_signal")
        IN  /\ Cardinality(found) =
                   (IF /\ HasKeyword(args.code, kw_variable)
                       /\ HasKeyword(args.code, kw_signal)
                    THEN 1 ELSE 0)
            /\ \A i \in found : ret.value.issues[i].severity = "info"

\* the kinds only the Verilog branch emits
VerilogOnlyKinds ==
    {"blocking_in_sequential", "incomplete_sensitivity", "no_case_default",
     "multiple_assignments", "clock_domain_crossing"}

\* C20: for VHDL, exactly one latch_inference warning, without a line, when
\* the source contains the text process and nowhere the text else, and none
\* otherwise; no Verilog-only kind is emitted for VHDL, and no
\* mixed_variable_signal for Verilog.
C20_VhdlLatchAndKinds ==
    (Returned /\ tool = "analyzeVerilog" /\ ret.type = "normal") =>
        /\ args.language = "vhdl" =>
               LET found == IssuesOfKind(ret.value, "latch_inference")
               IN  /\ Cardinality(found) =
                          (IF /\ Includes(args.code, kw_process)
                              /\ ~Includes(args.code, kw_else)
                           THEN 1 ELSE 0)
                   /\ \A i \in found :
                          /\ ret.value.issues[i].severity = "warning"
                          /\ "line" \notin DOMAIN ret.value.issues[i]
                   /\ \A i \in 1..Len(ret.value.issues) :
                          ret.value.issues[i].type \notin VerilogOnlyKinds
        /\ args.language = "verilog" =>
               IssuesOfKind(ret.value, "mixed_variable_signal") = {}

\* C20 witness: the VHDL example (a process without else, with a variable and
\* a signal) has returned its latch_inference warning, and it has no line.
C20_Witness ==
    /\ ReturnedVhdl /\ ret.type = "normal"
    /\ args.code = Ex_vhdl
    /\ \E i \in IssuesOfKind(ret.value, "latch_inference") :
           "line" \notin DOMAIN ret.value.issues[i]

\* the ends of the lines of a source: its line feeds and the position after
\* its last character
LineEnds(code) == NewlinesOf(code) \cup {Len(code) + 1}

\* the length of the line that ends at position e
LineLengthAt(code, e) ==
    e - 1 - (IF \E p \in NewlinesOf(code) : p < e
             THEN CHOOSE p \in NewlinesOf(code) :
                      p < e /\ \A q \in NewlinesOf(code) : q < e => q <= p
             ELSE 0)

\* the number of lines longer than 120 characters
LongLineCount(code) ==
    Cardinality({e \in LineEnds(code) : LineLengthAt(code, e) > 120})

\* C21: for both languages, exactly one style info issue when some line is
\* longer than 120 characters, its message stating the number of such lines;
\* none when every line has at most 120 characters.
C21_StyleCountsLongLines ==
    (Returned /\ tool = "analyzeVerilog" /\ ret.type = "normal") =>
        LET found == IssuesOfKind(ret.value, "style")
        IN  /\ Cardinality(found) = (IF LongLineCount(args.code) > 0 THEN 1 ELSE 0)
            /\ \A i \in found :
                   /\ ret.value.issues[i].severity = "info"
                   /\ ret.value.issues[i].message
                          = ToString(LongLineCount(args.code))
                            \o " lines exceed 120 characters"

\* C21 witness: the source with lines of 121, 120 and 122 characters has
\* returned a style issue that counts two lines, for VHDL.
C21_Witness ==
    /\ ReturnedVhdl /\ ret.type = "normal"
    /\ args.code = Ex_long_lines
    /\ \E i \in IssuesOfKind(ret.value, "style") :
           ret.value.issues[i].message = "2 lines exceed 120 characters"

\* the place of each kind in the order the rules run, per language
RuleOrder ==
    [verilog |-> [latch_inference        |-> 1,
                  blocking_in_sequential |-> 2,
                  incomplete_sensitivity |-> 3,
                  no_case_default        |-> 4,
                  multiple_assignments   |-> 5,
                  clock_domain_crossing  |-> 6,
                  style                  |-> 7],
     vhdl    |-> [latch_inference        |-> 1,
                  mixed_variable_signal  |-> 2,
                  style                  |-> 3]]

\* C22: the issues are in detection order: the kinds follow the order of the
\* rules of the language, whatever their severities, and a style issue is the
\* last one.
C22_DetectionOrder ==
    (Returned /\ tool = "analyzeVerilog" /\ ret.type = "normal") =>
        LET issues == ret.value.issues
            order  == RuleOrder[args.language]
        IN  /\ \A i \in 1..Len(issues) : issues[i].type \in DOMAIN order
            /\ \A i, j \in 1..Len(issues) :
                   i < j => order[issues[i].type] <= order[issues[j].type]
            /\ \A i \in 1..Len(issues) :
                   issues[i].type = "style" => i = Len(issues)

\* C22 witness: a result in which a warning precedes an error and the style
\* issue is last.
C22_Witness ==
    /\ ReturnedVerilog /\ ret.type = "normal"
    /\ Len(ret.value.issues) >= 3
    /\ ret.value.issues[1].severity = "warning"
    /\ ret.value.issues[2].severity = "error"
    /\ ret.value.issues[Len(ret.value.issues)].type = "style"

(***************************************************************************)
(* The conversation agent (src/src/agent.ts).                              *)
(*                                                                         *)
(* A webSocketMessage invocation runs from one await to the next without   *)
(* interruption; at an await any other invocation may run.  An operation   *)
(* on the database, on the state or on the model takes effect when it is   *)
(* called, and the caller resumes later.  Rows of messages are kept in     *)
(* insertion order, their timestamps taken as strictly increasing, so that *)
(* ORDER BY timestamp is the insertion order.  The table design_context is *)
(* only ever written and is not represented; the awaits of its writes are. *)
(***************************************************************************)
kw_error     == <<"e","r","r","o","r">>
kw_warning   == <<"w","a","r","n","i","n","g">>
kw_violation == <<"v","i","o","l","a","t","i","o","n">>
kw_latch     == <<"l","a","t","c","h">>
kw_timing    == <<"t","i","m","i","n","g">>

\* updateDesignContext's list of keywords
errorKeywords == <<kw_error, kw_warning, kw_violation, kw_latch, kw_timing>>

\* the length recentErrors is trimmed to
RecentErrorsLimit == 5

\* the number of messages handleChatMessage reads back
ChatHistoryLimit == 10

\* the number of messages sendChatHistory reads back
SentHistoryLimit == 50

UpperLetters ==
    <<"A","B","C","D","E","F","G","H","I","J","K","L","M",
      "N","O","P","Q","R","S","T","U","V","W","X","Y","Z">>
LowerLetters ==
    <<"a","b","c","d","e","f","g","h","i","j","k","l","m",
      "n","o","p","q","r","s","t","u","v","w","x","y","z">>

\* String.prototype.toLowerCase (ASCII)
toLowerCase(s) ==
    [i \in 1..Len(s) |->
        IF s[i] \in Upper
        THEN LowerLetters[CHOOSE k \in 1..26 : UpperLetters[k] = s[i]]
        ELSE s[i]]

\* /module\s+(\w+)/i matches at position i of s: the word in any case, then
\* white space (greedy), then at least one word character
ModuleAt(s, i) ==
    /\ MatchAt(toLowerCase(s), i, kw_module)
    /\ SkipClass(s, i + 6, SpaceChar) > i + 6
    /\ SkipClass(s, i + 6, SpaceChar) <= Len(s)
    /\ s[SkipClass(s, i + 6, SpaceChar)] \in WordChar

\* message.match(/module\s+(\w+)/i): the leftmost match and its group
moduleMatch(message) ==
    LET starts == {i \in 1..Len(message) : ModuleAt(message, i)}
    IN  IF starts = {} THEN Null
        ELSE CHOOSE r \in
               {Arr(<<SubSeq(message, i, SkipClass(message, j, WordChar) - 1),
                      SubSeq(message, j, SkipClass(message, j, WordChar) - 1)>>)
                  : <<i, j>> \in {<<Min(starts), SkipClass(message, Min(starts) + 6, SpaceChar)>>}}
               : TRUE

\* the keywords of errorKeywords that lowerMessage includes, by position
matchingKeywords(lowerMessage) ==
    {k \in 1..Len(errorKeywords) : Includes(lowerMessage, errorKeywords[k])}

\* Mutant: the oldest entry is never dropped.
pushRecentError_noShift(recentErrors, keyword) == Append(recentErrors, keyword)

\* recentErrors.push(keyword); if (recentErrors.length > 5) recentErrors.shift()
pushRecentError(recentErrors, keyword) ==
    IF Len(Append(recentErrors, keyword)) > RecentErrorsLimit
    THEN Tail(Append(recentErrors, keyword))
    ELSE Append(recentErrors, keyword)

\* Array.prototype.join over character sequences
JoinText(parts, sep) ==
    LET F[k \in 0..Len(parts)] ==
            IF k = 0 THEN <<>>
            ELSE IF k = 1 THEN parts[1]
            ELSE F[k - 1] \o sep \o parts[k]
    IN  F[Len(parts)]

\* the template of buildSystemPrompt up to ${designContext.currentModule}
Prompt_expertise ==
    <<
      "Y","o","u"," ","a","r","e"," ","a","n"," ","e",
      "x","p","e","r","t"," ","H","a","r","d","w","a",
      "r","e"," ","D","e","b","u","g"," ","A","s","s",
      "i","s","t","a","n","t"," ","s","p","e","c","i",
      "a","l","i","z","i","n","g"," ","i","n"," ","R",
      "T","L"," ","d","e","s","i","g","n"," ","w","i",
      "t","h"," ","V","e","r","i","l","o","g"," ","a",
      "n","d"," ","V","H","D","L",".","\n","\n","Y","o",
      "u","r"," ","e","x","p","e","r","t","i","s","e",
      " ","i","n","c","l","u","d","e","s",":","\n","-",
      " ","D","i","g","i","t","a","l"," ","l","o","g",
      "i","c"," ","d","e","s","i","g","n"," ","a","n",
      "d"," ","s","y","n","t","h","e","s","i","s","\n",
      "-"," ","T","i","m","i","n","g"," ","a","n","a",
      "l","y","s","i","s"," ","(","s","e","t","u","p",
      "/","h","o","l","d"," ","v","i","o","l","a","t",
      "i","o","n","s",","," ","c","l","o","c","k"," ",
      "d","o","m","a","i","n"," ","c","r","o","s","s",
      "i","n","g",")","\n","-"," ","C","o","m","m","o",
      "n"," ","p","i","t","f","a","l","l","s"," ","(",
      "l","a","t","c","h"," ","i","n","f","e","r","e",
      "n","c","e",","," ","c","o","m","b","i","n","a",
      "t","i","o","n","a","l"," ","l","o","o","p","s",
      ","," ","m","e","t","a","s","t","a","b","i","l",
      "i","t","y",")","\n","-"," ","E","D","A"," ","t",
      "o","o","l"," ","u","s","a","g","e"," ","(","S",
      "y","n","o","p","s","y","s",","," ","C","a","d",
      "e","n","c","e",","," ","X","i","l","i","n","x",
      ")","\n","-"," ","B","e","s","t"," ","p","r","a",
      "c","t","i","c","e","s"," ","f","o","r"," ","s",
      "y","n","t","h","e","s","i","z","a","b","l","e",
      " ","c","o","d","e","\n","-"," ","F","S","M"," ",
      "d","e","s","i","g","n"," ","a","n","d"," ","o",
      "p","t","i","m","i","z","a","t","i","o","n","\n",
      "-"," ","P","r","o","t","o","c","o","l"," ","i",
      "m","p","l","e","m","e","n","t","a","t","i","o",
      "n","s"," ","(","A","X","I",","," ","A","H","B",
      ","," ","A","P","B",")","\n","\n","C","u","r","r",
      "e","n","t"," ","d","e","s","i","g","n"," ","c",
      "o","n","t","e","x","t",":","\n","-"," ","A","c",
      "t","i","v","e"," ","m","o","d","u","l","e",":",
      " "
    >>

\* ... up to ${designContext.recentErrors.join(...)}
Prompt_issues ==
    <<
      "\n","-"," ","R","e","c","e","n","t"," ","i","s",
      "s","u","e","s",":"," "
    >>

\* ... up to ${designContext.syntaxPreferences.language}
Prompt_language ==
    <<
      "\n","-"," ","P","r","e","f","e","r","r","e","d",
      " ","l","a","n","g","u","a","g","e",":"," "
    >>

\* ... and the rest of the template
Prompt_guidelines ==
    <<
      "\n","\n","G","u","i","d","e","l","i","n","e","s",
      ":","\n","1","."," ","P","r","o","v","i","d","e",
      " ","c","l","e","a","r",","," ","a","c","t","i",
      "o","n","a","b","l","e"," ","d","e","b","u","g",
      "g","i","n","g"," ","a","d","v","i","c","e","\n",
      "2","."," ","I","n","c","l","u","d","e"," ","c",
      "o","d","e"," ","e","x","a","m","p","l","e","s",
      " ","w","h","e","n"," ","r","e","l","e","v","a",
      "n","t","\n","3","."," ","E","x","p","l","a","i",
      "n"," ","W","H","Y"," ","i","s","s","u","e","s",
      " ","o","c","c","u","r",","," ","n","o","t"," ",
      "j","u","s","t"," ","H","O","W"," ","t","o"," ",
      "f","i","x"," ","t","h","e","m","\n","4","."," ",
      "R","e","f","e","r","e","n","c","e"," ","s","p",
      "e","c","i","f","i","c"," ","l","i","n","e"," ",
      "n","u","m","b","e","r","s"," ","w","h","e","n",
      " ","a","n","a","l","y","z","i","n","g"," ","c",
      "o","d","e","\n","5","."," ","S","u","g","g","e",
      "s","t"," ","v","e","r","i","f","i","c","a","t",
      "i","o","n"," ","s","t","r","a","t","e","g","i",
      "e","s","\n","6","."," ","B","e"," ","c","o","n",
      "c","i","s","e"," ","b","u","t"," ","t","h","o",
      "r","o","u","g","h","\n","\n","W","h","e","n"," ",
      "a","n","a","l","y","z","i","n","g"," ","c","o",
      "d","e",":","\n","-"," ","C","h","e","c","k"," ",
      "f","o","r"," ","s","y","n","t","h","e","s","i",
      "z","a","b","i","l","i","t","y","\n","-"," ","I",
      "d","e","n","t","i","f","y"," ","t","i","m","i",
      "n","g"," ","i","s","s","u","e","s","\n","-"," ",
      "L","o","o","k"," ","f","o","r"," ","c","o","d",
      "i","n","g"," ","s","t","y","l","e"," ","p","r",
      "o","b","l","e","m","s","\n","-"," ","S","u","g",
      "g","e","s","t"," ","o","p","t","i","m","i","z",
      "a","t","i","o","n","s"
    >>

\* buildSystemPrompt
buildSystemPrompt(designContext) ==
    Prompt_expertise
    \o designContext.currentModule
    \o Prompt_issues
    \o (IF JoinText(designContext.recentErrors, <<",", " ">>) = <<>>
        THEN <<"n","o","n","e">>
        ELSE JoinText(designContext.recentErrors, <<",", " ">>))
    \o Prompt_language
    \o designContext.syntaxPreferences.language
    \o Prompt_guidelines

\* SELECT ... ORDER BY timestamp DESC LIMIT limit, reversed: the last limit
\* rows, oldest first
lastRows(rows, limit) ==
    IF Len(rows) <= limit THEN rows
    ELSE SubSeq(rows, Len(rows) - limit + 1, Len(rows))

\* getConversationHistory: role and content of the last limit rows
getConversationHistory(limit) ==
    [i \in 1..Len(lastRows(messages, limit)) |->
        [role |-> lastRows(messages, limit)[i].role,
         content |-> lastRows(messages, limit)[i].content]]

(***************************************************************************)
(* The handlers.  A frame of handlers holds the position of an invocation  *)
(* (the await it is suspended at) and the locals it still reads.  What the *)
(* agent sends on the socket is not kept, except in log.                   *)
(***************************************************************************)
\* the frames without that of h (h has returned)
Without(h) == [i \in DOMAIN handlers \ {h} |-> handlers[i]]

\* the frames with that of h replaced by f
With(h, f) == [i \in DOMAIN handlers \cup {h} |-> IF i = h THEN f ELSE handlers[i]]

\* the DesignContext objects that the state st or a local of hs refers to
Referenced(st, hs) ==
    {st.designContext}
    \cup {hs[i].currentState.designContext :
             i \in {j \in DOMAIN hs : "currentState" \in DOMAIN hs[j]}}
    \cup {hs[i].update.designContext :
             i \in {j \in DOMAIN hs : "update" \in DOMAIN hs[j]}}

\* the next state, frames and objects; an object nothing refers to is dropped
Commit(st, cx, hs) ==
    /\ state' = st
    /\ handlers' = hs
    /\ contexts' = [o \in Referenced(st, hs) |-> cx[o]]

Chat_greeting == <<"h","i">>
Chat_module_latch == <<"M","o","d","u","l","e"," ","f","i","f","o",":"," ","L","a","t","c","h"," ","w","a","r","n","i","n","g">>
Chat_timing == <<"t","i","m","i","n","g">>

\* the chat contents tried
ChatTexts == {Chat_greeting, Chat_module_latch, Chat_timing}

\* the chunks the model's text stream may deliver
ChunkTexts == {<<"o","k">>}

\* the characters of a response
MaxResponse == 2

\* webSocketMessage, case 'chat': handleChatMessage stores the user message
ReceiveChat(content) ==
    /\ received' = received + 1
    /\ messages' = Append(messages,
                     [role |-> "user", content |-> content, chat |-> received + 1])
    /\ handlers' = With(received + 1,
                     [type |-> "chat", pc |-> "count", userMessage |-> content])
    /\ log' = [log EXCEPT !.chats = @ + 1, !.lastChat = received + 1]
    /\ UNCHANGED <<state, contexts, toolVars>>

\* handleChatMessage: const currentState = this.state; setState with the
\* conversation counted
CountConversation(h) ==
    /\ h \in DOMAIN handlers
    /\ handlers[h].pc = "count"
    /\ Commit([state EXCEPT !.conversationCount = @ + 1],
              contexts,
              With(h, [type |-> "chat", pc |-> "context",
                       userMessage |-> handlers[h].userMessage,
                       currentState |-> state]))
    /\ UNCHANGED <<messages, received, log, toolVars>>

\* updateDesignContext, its last statement: setState with the snapshot taken
\* on entry and the (shared) designContext object; then the caller's await
SaveDesignContextFrom(h, f) ==
    Commit([conversationCount |-> f.update.currentState.conversationCount,
            designContext |-> f.update.designContext],
           contexts,
           With(h, [type |-> "chat", pc |-> "history",
                    userMessage |-> f.userMessage,
                    currentState |-> f.currentState]))

\* updateDesignContext, the keyword loop: the first keyword of the list that
\* the message includes is pushed, in place, and the loop left
RecordErrorsFrom(h, f) ==
    IF matchingKeywords(f.update.lowerMessage) # {}
    THEN Commit(state,
                [contexts EXCEPT ![f.update.designContext].recentErrors =
                    pushRecentError(@, errorKeywords[Min(matchingKeywords(f.update.lowerMessage))])],
                With(h, [f EXCEPT !.pc = "save"]))
    ELSE SaveDesignContextFrom(h, f)

\* updateDesignContext from its entry: the snapshot of the state, and the
\* module name, written in place
UpdateDesignContextFrom(h, f) ==
    IF ~moduleMatch(f.userMessage).isNull
    THEN Commit(state,
                [contexts EXCEPT ![f.update.designContext].currentModule =
                    moduleMatch(f.userMessage).items[2]],
                With(h, [f EXCEPT !.pc = "errors"]))
    ELSE RecordErrorsFrom(h, f)

UpdateDesignContext(h) ==
    /\ h \in DOMAIN handlers
    /\ handlers[h].pc = "context"
    /\ UpdateDesignContextFrom(h,
          [type |-> "chat", pc |-> "context",
           userMessage |-> handlers[h].userMessage,
           currentState |-> handlers[h].currentState,
           update |-> [lowerMessage |-> toLowerCase(handlers[h].userMessage),
                       currentState |-> state,
                       designContext |-> state.designContext]])
    /\ UNCHANGED <<messages, received, log, toolVars>>

\* updateDesignContext resumed after the write of the module name
RecordErrors(h) ==
    /\ h \in DOMAIN handlers
    /\ handlers[h].pc = "errors"
    /\ RecordErrorsFrom(h, handlers[h])
    /\ UNCHANGED <<messages, received, log, toolVars>>

\* updateDesignContext resumed after the write of the error type
SaveDesignContext(h) ==
    /\ h \in DOMAIN handlers
    /\ handlers[h].pc = "save"
    /\ SaveDesignContextFrom(h, handlers[h])
    /\ UNCHANGED <<messages, received, log, toolVars>>

\* handleChatMessage: const history = await this.getConversationHistory(10)
\* (historyOf: which request stored each row read)
ReadHistory(h) ==
    /\ h \in DOMAIN handlers
    /\ handlers[h].pc = "history"
    /\ Commit(state, contexts,
              With(h, [type |-> "chat", pc |-> "model",
                       userMessage |-> handlers[h].userMessage,
                       currentState |-> handlers[h].currentState,
                       history |-> getConversationHistory(ChatHistoryLimit),
                       historyOf |-> [i \in 1..Len(lastRows(messages, ChatHistoryLimit)) |->
                                        lastRows(messages, ChatHistoryLimit)[i].chat]]))
    /\ UNCHANGED <<messages, received, log, toolVars>>

\* the messages of the streamText call
modelMessages(systemPrompt, history, userMessage) ==
    <<[role |-> "system", content |-> systemPrompt]>>
    \o history
    \o <<[role |-> "user", content |-> userMessage]>>

\* handleChatMessage: the system prompt is built and streamText called
CallModel(h) ==
    /\ h \in DOMAIN handlers
    /\ handlers[h].pc = "model"
    /\ Commit(state, contexts,
              With(h, [type |-> "chat", pc |-> "stream",
                       userMessage |-> handlers[h].userMessage,
                       historyOf |-> handlers[h].historyOf,
                       messages |-> modelMessages(
                           buildSystemPrompt(contexts[handlers[h].currentState.designContext]),
                           handlers[h].history,
                           handlers[h].userMessage)]))
    /\ UNCHANGED <<messages, received, log, toolVars>>

\* streamText has returned its result: let fullResponse = ''
StreamText(h) ==
    /\ h \in DOMAIN handlers
    /\ handlers[h].pc = "stream"
    /\ Commit(state, contexts,
              With(h, [type |-> "chat", pc |-> "chunks", fullResponse |-> <<>>]))
    /\ UNCHANGED <<messages, received, log, toolVars>>

\* for await (const chunk of result.textStream): one chunk
StreamChunk(h, chunk) ==
    /\ h \in DOMAIN handlers
    /\ handlers[h].pc = "chunks"
    /\ Len(handlers[h].fullResponse) + Len(chunk) <= MaxResponse
    /\ Commit(state, contexts,
              With(h, [handlers[h] EXCEPT !.fullResponse = @ \o chunk]))
    /\ UNCHANGED <<messages, received, log, toolVars>>

\* the stream has ended: the response is stored
StoreResponse(h) ==
    /\ h \in DOMAIN handlers
    /\ handlers[h].pc = "chunks"
    /\ messages' = Append(messages,
                     [role |-> "assistant", content |-> handlers[h].fullResponse,
                      chat |-> h])
    /\ Commit(state, contexts, With(h, [type |-> "chat", pc |-> "end"]))
    /\ UNCHANGED <<received, log, toolVars>>

\* the model call or its stream throws: the catch clause reports the error
StreamFails(h) ==
    /\ h \in DOMAIN handlers
    /\ handlers[h].pc \in {"stream", "chunks"}
    /\ Commit(state, contexts, Without(h))
    /\ UNCHANGED <<messages, received, log, toolVars>>

\* handleChatMessage: stream_end is sent and the handler returns
EndStream(h) ==
    /\ h \in DOMAIN handlers
    /\ handlers[h].pc = "end"
    /\ Commit(state, contexts, Without(h))
    /\ UNCHANGED <<messages, received, log, toolVars>>

\* webSocketMessage, case 'clear_history': clearHistory deletes the messages
ReceiveClearHistory ==
    /\ received' = received + 1
    /\ messages' = <<>>
    /\ handlers' = With(received + 1, [type |-> "clear_history", pc |-> "delete"])
    /\ log' = [log EXCEPT !.clears = @ + 1]
    /\ UNCHANGED <<state, contexts, toolVars>>

\* clearHistory: DELETE FROM design_context
DeleteDesignContext(h) ==
    /\ h \in DOMAIN handlers
    /\ handlers[h].pc = "delete"
    /\ Commit(state, contexts, With(h, [type |-> "clear_history", pc |-> "reset"]))
    /\ UNCHANGED <<messages, received, log, toolVars>>

\* clearHistory: setState with a zero count and a new DesignContext
ResetState(h) ==
    /\ h \in DOMAIN handlers
    /\ handlers[h].pc = "reset"
    /\ Commit([conversationCount |-> 0, designContext |-> h],
              (h :> NewDesignContext) @@ contexts,
              With(h, [type |-> "clear_history", pc |-> "cleared"]))
    /\ UNCHANGED <<messages, received, log, toolVars>>

\* webSocketMessage: history_cleared is sent and the handler returns
SendHistoryCleared(h) ==
    /\ h \in DOMAIN handlers
    /\ handlers[h].pc = "cleared"
    /\ Commit(state, contexts, Without(h))
    /\ log' = [log EXCEPT !.cleared = h]
    /\ UNCHANGED <<messages, received, toolVars>>

\* webSocketMessage, case 'get_history': sendChatHistory reads the messages
\* (cleared: the last clear_history acknowledged before this request)
ReceiveGetHistory ==
    /\ received' = received + 1
    /\ handlers' = With(received + 1,
                     [type |-> "get_history", pc |-> "send",
                      messages |-> getConversationHistory(SentHistoryLimit),
                      cleared |-> log.cleared])
    /\ UNCHANGED <<state, contexts, messages, log, toolVars>>

\* sendChatHistory: the history is sent and the handler returns
SendHistory(h) ==
    /\ h \in DOMAIN handlers
    /\ handlers[h].pc = "send"
    /\ Commit(state, contexts, Without(h))
    /\ UNCHANGED <<messages, received, log, toolVars>>

InitAgent ==
    /\ pc = "serving"
    /\ tool = "webSocketMessage"
    /\ args = <<>>
    /\ ret = NoRet
    /\ initialize

(***************************************************************************)
(* Any three messages, two of them at a time, the model answering with no  *)
(* chunk or one, or failing.                                               *)
(***************************************************************************)
\* the messages received in all
MaxReceived == 3
\* the invocations in progress at a time
MaxInFlight == 2
\* a further message is accepted
CanReceive ==
    /\ received < MaxReceived
    /\ Cardinality(DOMAIN handlers) < MaxInFlight

NextAgent ==
    \/ CanReceive /\ \E content \in ChatTexts : ReceiveChat(content)
    \/ CanReceive /\ ReceiveClearHistory
    \/ CanReceive /\ ReceiveGetHistory
    \/ \E h \in DOMAIN handlers : CountConversation(h)
    \/ \E h \in DOMAIN handlers : UpdateDesignContext(h)
    \/ \E h \in DOMAIN handlers : RecordErrors(h)
    \/ \E h \in DOMAIN handlers : SaveDesignContext(h)
    \/ \E h \in DOMAIN handlers : ReadHistory(h)
    \/ \E h \in DOMAIN handlers : CallModel(h)
    \/ \E h \in DOMAIN handlers : StreamText(h)
    \/ \E h \in DOMAIN handlers, chunk \in ChunkTexts : StreamChunk(h, chunk)
    \/ \E h \in DOMAIN handlers : StoreResponse(h)
    \/ \E h \in DOMAIN handlers : StreamFails(h)
    \/ \E h \in DOMAIN handlers : EndStream(h)
    \/ \E h \in DOMAIN handlers : DeleteDesignContext(h)
    \/ \E h \in DOMAIN handlers : ResetState(h)
    \/ \E h \in DOMAIN handlers : SendHistoryCleared(h)
    \/ \E h \in DOMAIN handlers : SendHistory(h)

SpecAgent == InitAgent /\ [][NextAgent]_vars

(***************************************************************************)
(* Longer conversations: chats that name a keyword, and clear_history, the *)
(* first two overlapping, the later ones one after the other; the model    *)
(* answers each chat with an empty stream.                                 *)
(***************************************************************************)
\* the chat contents tried
KeywordChats == {Chat_module_latch, Chat_timing}

\* the messages received in all
MaxChats == 6
\* the messages, of these, that may arrive while another is in progress
MaxOverlapped == 2

\* a further message is accepted
CanReceiveChat ==
    /\ received < MaxChats
    /\ Cardinality(DOMAIN handlers) < MaxInFlight
    /\ DOMAIN handlers = {} \/ received < MaxOverlapped

NextChats ==
    \/ CanReceiveChat /\ \E content \in KeywordChats : ReceiveChat(content)
    \/ CanReceiveChat /\ ReceiveClearHistory
    \/ \E h \in DOMAIN handlers : CountConversation(h)
    \/ \E h \in DOMAIN handlers : UpdateDesignContext(h)
    \/ \E h \in DOMAIN handlers : RecordErrors(h)
    \/ \E h \in DOMAIN handlers : SaveDesignContext(h)
    \/ \E h \in DOMAIN handlers : ReadHistory(h)
    \/ \E h \in DOMAIN handlers : CallModel(h)
    \/ \E h \in DOMAIN handlers : StreamText(h)
    \/ \E h \in DOMAIN handlers : StoreResponse(h)
    \/ \E h \in DOMAIN handlers : EndStream(h)
    \/ \E h \in DOMAIN handlers : DeleteDesignContext(h)
    \/ \E h \in DOMAIN handlers : ResetState(h)
    \/ \E h \in DOMAIN handlers : SendHistoryCleared(h)

SpecChats == InitAgent /\ [][NextChats]_vars

(***************************************************************************)
(* Properties of the agent.                                                *)
(***************************************************************************)
\* the invocations that handle a chat message and have not yet got past the
\* keyword loop of updateDesignContext
BeforeKeywordLoop == {h \in DOMAIN handlers : handlers[h].pc \in {"count", "context", "errors"}}

\* the keywords, in the order of the list, that the lower-cased text holds
KeywordsIn(text) ==
    SelectSeq(errorKeywords, LAMBDA k : Includes(toLowerCase(text), k))

\* h's step appended exactly the first keyword of its message to the list
\* "before", dropping the oldest entry when that made six
AddedByChat(h, before, after) ==
    /\ h \in BeforeKeywordLoop
    /\ h \in DOMAIN handlers' => handlers'[h].pc \notin {"count", "context", "errors"}
    /\ \A g \in BeforeKeywordLoop \ {h} : g \in DOMAIN handlers' /\ handlers'[g] = handlers[g]
    /\ KeywordsIn(handlers[h].userMessage) # <<>>
    /\ IF Len(before) < 5
       THEN after = before \o <<KeywordsIn(handlers[h].userMessage)[1]>>
       ELSE /\ Len(after) = 5
            /\ \A i \in 1..4 : after[i] = before[i + 1]
            /\ after[5] = KeywordsIn(handlers[h].userMessage)[1]

\* no DesignContext holds more than 5 recent errors
C23_AtMostFive ==
    \A o \in DOMAIN contexts : Len(contexts[o].recentErrors) <= 5

\* a step leaves the recent errors of every DesignContext as they were, or is
\* the step of one chat invocation that adds one keyword and will add no other
C23_OnePerChat ==
    /\ \A h \in DOMAIN handlers \ BeforeKeywordLoop :
          h \in DOMAIN handlers' => handlers'[h].pc \notin {"count", "context", "errors"}
    /\ \A o \in DOMAIN contexts \cap DOMAIN contexts' :
          \/ contexts'[o].recentErrors = contexts[o].recentErrors
          \/ \E h \in DOMAIN handlers :
                AddedByChat(h, contexts[o].recentErrors, contexts'[o].recentErrors)
    /\ \A o \in DOMAIN contexts' \ DOMAIN contexts : contexts'[o].recentErrors = <<>>

\* C23: in every reachable state of the agent recentErrors holds at most 5
\* entries; a chat message adds at most one entry, the first keyword of error,
\* warning, violation, latch, timing that it contains; and when a sixth entry
\* would be added the oldest one is dropped.
C23_RecentErrorsBounded == []C23_AtMostFive /\ [][C23_OnePerChat]_vars

\* six chats, the first about timing and the others about a latch warning,
\* have been handled: the entry of the first has been dropped
C23_Witness ==
    /\ DOMAIN handlers = {}
    /\ log.chats = 6
    /\ log.clears = 0
    /\ messages[1].content = Chat_timing
    /\ contexts[state.designContext].recentErrors =
          <<kw_warning, kw_warning, kw_warning, kw_warning, kw_warning>>
    /\ contexts[state.designContext].currentModule = <<"f","i","f","o">>

\* C24: once every received chat message has been fully handled,
\* conversationCount equals the number of chat messages received (stated for
\* conversations without clear_history, where the count starts at
\* initialization), whatever the interleaving of the handlers at their awaits.
C24_CountsEveryChat ==
    (DOMAIN handlers = {} /\ log.clears = 0) => state.conversationCount = log.chats

\* the get_history invocations in progress
HistoryRequests == {h \in DOMAIN handlers : handlers[h].type = "get_history"}

\* C25: after a clear_history has been processed (history_cleared sent) the
\* stored messages hold no message of a chat request received before that
\* clear, also when the chat's response was being streamed during the clear;
\* and a get_history received after it, with no chat received since the clear,
\* returns an empty list.
C25_ClearedStaysCleared ==
    /\ log.cleared > 0 =>
          \A i \in 1..Len(messages) : messages[i].chat > log.cleared
    /\ \A h \in HistoryRequests :
          (handlers[h].cleared > 0 /\ log.lastChat < handlers[h].cleared)
             => handlers[h].messages = <<>>

\* the chat invocations whose streamText call is in progress
ModelCalls == {h \in DOMAIN handlers : handlers[h].pc = "stream"}

\* the positions of the list handed to the model by h that hold the user
\* message of h itself: the last one, and the stored row of h if it was read
OwnUserMessage(h) ==
    {i \in 1..Len(handlers[h].messages) :
        /\ handlers[h].messages[i].role = "user"
        /\ \/ i = Len(handlers[h].messages)
           \/ i > 1 /\ handlers[h].historyOf[i - 1] = h}

\* C26: the list handed to the model is the system prompt, then at most the 10
\* most recent stored messages, oldest first, then the current user message;
\* and the current user message occurs in the list exactly once.
C26_ModelMessages ==
    \A h \in ModelCalls :
        /\ Len(handlers[h].messages) >= 2
        /\ Len(handlers[h].messages) <= 12
        /\ handlers[h].messages[1].role = "system"
        /\ SubSeq(handlers[h].messages[1].content, 1, Len(Prompt_expertise)) = Prompt_expertise
        /\ handlers[h].messages[Len(handlers[h].messages)] =
              [role |-> "user", content |-> handlers[h].userMessage]
        /\ Len(handlers[h].historyOf) = Len(handlers[h].messages) - 2
        /\ \A i \in 2..(Len(handlers[h].messages) - 1) :
              handlers[h].messages[i].role \in {"user", "assistant"}
        /\ Cardinality(OwnUserMessage(h)) = 1

=============================================================================
